---- MODULE Spec2Model ----
(***************************************************************************)
(* A model of the SES-shim module system: binding records of module        *)
(* instances (fixed and live exports), module instances and their          *)
(* execute(), the compartment's module(), importNow(), import() and the    *)
(* loader.                                                                 *)
(***************************************************************************)
EXTENDS Integers, Sequences, FiniteSets, TLC

(***************************************************************************)
(* Bounds of the model.                                                    *)
(***************************************************************************)
MaxVal == 2
MaxOps == 7
MaxCalls == 3
MaxNested == 1

(***************************************************************************)
(* The state.                                                              *)
(***************************************************************************)
\* Binding records.
VARIABLES
  fixedB,     \* fixed binding state: value, tdz, optUpdaters
  liveB,      \* live binding state: value, tdz, updaters
  recv,       \* recv[b][u]: the last value updater u was invoked with by binding b
  notified,   \* notified[b]: the updaters handed to notify of binding b so far
  lastOp,     \* the last operation on a binding, its argument and its outcome
  lastFan,    \* the updater invocations the last operation made, in order
  ops         \* number of operations so far

bvars == <<fixedB, liveB, recv, notified, lastOp, lastFan, ops>>

\* Compartments, module records and module instances.
VARIABLES
  moduleRecords,    \* per compartment: full specifier -> module record
  hookCalls,        \* per compartment and specifier: calls of the importHook
  deferredExports,  \* per compartment: full specifier -> exports proxy
  proxyGen,         \* per compartment and specifier: exports proxies created
  moduleAliases,    \* process-wide registry: exports proxy -> {compartment, specifier}
  active,           \* the exports proxies whose activate() has been called
  instances,        \* per compartment: full specifier -> module instance
  instGen,          \* per compartment and specifier: module instances created
  inst,             \* the state of every module instance created
  stack,            \* the functors being run, innermost last
  exc,              \* the exception being thrown up the stack, if any
  call,             \* the importNow call of the host in progress
  returned,         \* per compartment and specifier: namespaces importNow returned
  thrown,           \* per compartment and specifier: errors importNow threw
  moduleRet,        \* per compartment and specifier: namespaces module() returned
  calls,            \* number of calls of the host
  disc              \* per compartment and specifier: the state of its discovery by the loader

evars == <<moduleRecords, hookCalls, deferredExports, proxyGen, moduleAliases,
           active, instances, instGen, inst, stack, exc, call, returned, thrown,
           moduleRet, calls, disc>>

\* The loader.
VARIABLES
  settle,           \* per compartment and specifier: the promise load returns
  loadCalls,        \* per compartment and specifier: load calls of the host
  importing         \* per compartment and specifier: the progress of import() of the host

lvars == <<settle, loadCalls, importing>>

VARIABLES
  privateFields,    \* per compartment object: the private state its constructor registered
  constructorCall,  \* per constructed object: the arguments and the outcome of its constructor
  callerLexicals,   \* per compartment object: the object its caller passed as globalLexicals
  lastEval,         \* the program and the completion of the last evaluate call
  apiResult,        \* the outcome of the last module method call that failed its checks
  thirdParty        \* the third-party instance the linker constructed, with its bindings

cvars == <<privateFields, constructorCall, callerLexicals, lastEval, apiResult, thirdParty>>

\* The evaluator made by makeEvaluate.
VARIABLES
  scopeHandler,     \* the scope handler's useUnsafeEvaluator flag
  scopeProxy,       \* whether the scope proxy is revoked
  evaluation,       \* the call of the evaluator in progress, if any
  evaluations       \* the completed calls: what the source did, how the call ended

\* AltWeakMap instances beside the WeakMaps they stand in for.
VARIABLES
  hiddenValue,      \* per AltWeakMap and object: the private field #value of its HiddenClass
  weakMap,          \* per AltWeakMap: the entries of a WeakMap given the same calls
  lastCall          \* the last method call: what AltWeakMap and what WeakMap answered

wvars == <<hiddenValue, weakMap, lastCall>>

\* One call of graphPackages.
VARIABLES
  descriptors,      \* the package descriptors that read finds, per package location
  graph,            \* the graph under construction: per location its entry, if any
  gather,           \* per package and dependency name: the gatherDependency call
  graphPromise      \* the promise graphPackages returned

pvars == <<descriptors, graph, gather, graphPromise>>

gvars == <<scopeHandler, scopeProxy, evaluation, evaluations, wvars, pvars>>

vars == <<bvars, evars, lvars, cvars, gvars>>

(***************************************************************************)
(* PART 1. Binding records of a parsed module instance.                    *)
(* One fixed binding and one live binding, as makeModuleInstance builds    *)
(* them for each local name of __fixedExportMap__ and __liveExportMap__.   *)
(***************************************************************************)

\* `let value;` leaves the value undefined.
Undefined == 0
\* An updater that has not been invoked yet.
Never == -1
Values == 1..MaxVal
\* The updater closures of importing modules.
Updaters == {"u1", "u2"}
\* The binding's own init (fixed) or update (live) function, which notify
\* refuses in order to prevent recursion.
Self == "self"
\* `optUpdaters = null`
Null == <<"null">>

Bindings == {"fixed", "live"}

RECURSIVE Deliver(_, _, _)
\* for (const updater of updaters) updater(v)
Deliver(r, updaters, v) ==
  IF updaters = <<>> THEN r
  ELSE Deliver([r EXCEPT ![Head(updaters)] = v], Tail(updaters), v)

FanOut(updaters, v) == [i \in 1..Len(updaters) |-> <<updaters[i], v>>]

BInit ==
  /\ fixedB = [value |-> Undefined, tdz |-> TRUE, optUpdaters |-> <<>>]
  /\ liveB = [value |-> Undefined, tdz |-> TRUE, updaters |-> <<>>]
  /\ recv = [b \in Bindings |-> [u \in Updaters |-> Never]]
  /\ notified = [b \in Bindings |-> {}]
  /\ lastOp = [b |-> "none", op |-> "none", arg |-> Undefined, u |-> "none", res |-> "none"]
  /\ lastFan = <<>>
  /\ ops = 0

Op(b, op, arg, u, res) == [b |-> b, op |-> op, arg |-> arg, u |-> u, res |-> res]

\* fixed binding: tdz sensitive getter
fixedGet ==
  /\ ops < MaxOps
  /\ ops' = ops + 1
  /\ UNCHANGED <<evars, lvars, cvars, gvars>>
  /\ lastOp' = Op("fixed", "get", IF fixedB.tdz THEN Undefined ELSE fixedB.value, "none",
                  IF fixedB.tdz THEN "ReferenceError" ELSE "ok")
  /\ lastFan' = <<>>
  /\ UNCHANGED <<fixedB, liveB, recv, notified>>

\* fixedInit that stores the value again when the binding is initialized.
fixedInit_again(initValue) ==
  /\ ops < MaxOps
  /\ ops' = ops + 1
  /\ UNCHANGED <<evars, lvars, cvars, gvars>>
  /\ fixedB' = [value |-> initValue, tdz |-> FALSE, optUpdaters |-> Null]
  /\ recv' = [recv EXCEPT !["fixed"] =
                Deliver(@, IF fixedB.tdz THEN fixedB.optUpdaters ELSE <<>>, initValue)]
  /\ lastFan' = FanOut(IF fixedB.tdz THEN fixedB.optUpdaters ELSE <<>>, initValue)
  /\ lastOp' = Op("fixed", "init", initValue, "none", "ok")
  /\ UNCHANGED <<liveB, notified>>

\* fixed binding: leave tdz once
fixedInit(initValue) ==
  /\ ops < MaxOps
  /\ ops' = ops + 1
  /\ UNCHANGED <<evars, lvars, cvars, gvars>>
  /\ IF ~fixedB.tdz
       THEN /\ lastOp' = Op("fixed", "init", initValue, "none", "Error")
            /\ lastFan' = <<>>
            /\ UNCHANGED <<fixedB, recv>>
       ELSE /\ fixedB' = [value |-> initValue, tdz |-> FALSE, optUpdaters |-> Null]
            /\ recv' = [recv EXCEPT !["fixed"] = Deliver(@, fixedB.optUpdaters, initValue)]
            /\ lastFan' = FanOut(fixedB.optUpdaters, initValue)
            /\ lastOp' = Op("fixed", "init", initValue, "none", "ok")
  /\ UNCHANGED <<liveB, notified>>

\* fixed binding: if still tdz, register the updater for later, otherwise update now
fixedNotify(updater) ==
  /\ ops < MaxOps
  /\ ops' = ops + 1
  /\ UNCHANGED <<evars, lvars, cvars, gvars>>
  /\ lastOp' = Op("fixed", "notify", Undefined, updater, "ok")
  /\ IF updater = Self
       THEN /\ lastFan' = <<>>
            /\ UNCHANGED <<fixedB, recv, notified>>
       ELSE /\ notified' = [notified EXCEPT !["fixed"] = @ \cup {updater}]
            /\ IF fixedB.tdz
                 THEN /\ fixedB' = [fixedB EXCEPT !.optUpdaters = Append(@, updater)]
                      /\ lastFan' = <<>>
                      /\ UNCHANGED recv
                 ELSE /\ recv' = [recv EXCEPT !["fixed"][updater] = fixedB.value]
                      /\ lastFan' = <<<<updater, fixedB.value>>>>
                      /\ UNCHANGED fixedB
  /\ UNCHANGED liveB

\* live binding: tdz sensitive getter
liveGet ==
  /\ ops < MaxOps
  /\ ops' = ops + 1
  /\ UNCHANGED <<evars, lvars, cvars, gvars>>
  /\ lastOp' = Op("live", "get", IF liveB.tdz THEN Undefined ELSE liveB.value, "none",
                  IF liveB.tdz THEN "ReferenceError" ELSE "ok")
  /\ lastFan' = <<>>
  /\ UNCHANGED <<fixedB, liveB, recv, notified>>

\* liveUpdate that invokes the updaters last subscribed first.
liveUpdate_lastFirst(newValue) ==
  /\ ops < MaxOps
  /\ ops' = ops + 1
  /\ UNCHANGED <<evars, lvars, cvars, gvars>>
  /\ liveB' = [liveB EXCEPT !.value = newValue, !.tdz = FALSE]
  /\ recv' = [recv EXCEPT !["live"] = Deliver(@, liveB.updaters, newValue)]
  /\ lastFan' = [i \in 1..Len(liveB.updaters) |->
                   <<liveB.updaters[Len(liveB.updaters) + 1 - i], newValue>>]
  /\ lastOp' = Op("live", "update", newValue, "none", "ok")
  /\ UNCHANGED <<fixedB, notified>>

\* live binding: initialize or update, callable independent of tdz, always leaves tdz
liveUpdate(newValue) ==
  /\ ops < MaxOps
  /\ ops' = ops + 1
  /\ UNCHANGED <<evars, lvars, cvars, gvars>>
  /\ liveB' = [liveB EXCEPT !.value = newValue, !.tdz = FALSE]
  /\ recv' = [recv EXCEPT !["live"] = Deliver(@, liveB.updaters, newValue)]
  /\ lastFan' = FanOut(liveB.updaters, newValue)
  /\ lastOp' = Op("live", "update", newValue, "none", "ok")
  /\ UNCHANGED <<fixedB, notified>>

\* liveSet without its tdz check.
liveSet_noTdzCheck(newValue) ==
  /\ ops < MaxOps
  /\ ops' = ops + 1
  /\ UNCHANGED <<evars, lvars, cvars, gvars>>
  /\ liveB' = [liveB EXCEPT !.value = newValue]
  /\ recv' = [recv EXCEPT !["live"] = Deliver(@, liveB.updaters, newValue)]
  /\ lastFan' = FanOut(liveB.updaters, newValue)
  /\ lastOp' = Op("live", "set", newValue, "none", "ok")
  /\ UNCHANGED <<fixedB, notified>>

\* live binding: tdz sensitive setter
liveSet(newValue) ==
  /\ ops < MaxOps
  /\ ops' = ops + 1
  /\ UNCHANGED <<evars, lvars, cvars, gvars>>
  /\ IF liveB.tdz
       THEN /\ lastOp' = Op("live", "set", newValue, "none", "ReferenceError")
            /\ lastFan' = <<>>
            /\ UNCHANGED <<liveB, recv>>
       ELSE /\ liveB' = [liveB EXCEPT !.value = newValue]
            /\ recv' = [recv EXCEPT !["live"] = Deliver(@, liveB.updaters, newValue)]
            /\ lastFan' = FanOut(liveB.updaters, newValue)
            /\ lastOp' = Op("live", "set", newValue, "none", "ok")
  /\ UNCHANGED <<fixedB, notified>>

\* liveNotify that registers the updater and never updates it now.
liveNotify_noImmediate(updater) ==
  /\ ops < MaxOps
  /\ ops' = ops + 1
  /\ UNCHANGED <<evars, lvars, cvars, gvars>>
  /\ lastOp' = Op("live", "notify", Undefined, updater, "ok")
  /\ lastFan' = <<>>
  /\ IF updater = Self
       THEN UNCHANGED <<liveB, notified>>
       ELSE /\ notified' = [notified EXCEPT !["live"] = @ \cup {updater}]
            /\ liveB' = [liveB EXCEPT !.updaters = Append(@, updater)]
  /\ UNCHANGED <<fixedB, recv>>

\* live binding: always register the updater; if not in tdz, also update now
liveNotify(updater) ==
  /\ ops < MaxOps
  /\ ops' = ops + 1
  /\ UNCHANGED <<evars, lvars, cvars, gvars>>
  /\ lastOp' = Op("live", "notify", Undefined, updater, "ok")
  /\ IF updater = Self
       THEN /\ lastFan' = <<>>
            /\ UNCHANGED <<liveB, recv, notified>>
       ELSE /\ notified' = [notified EXCEPT !["live"] = @ \cup {updater}]
            /\ liveB' = [liveB EXCEPT !.updaters = Append(@, updater)]
            /\ IF ~liveB.tdz
                 THEN /\ recv' = [recv EXCEPT !["live"][updater] = liveB.value]
                      /\ lastFan' = <<<<updater, liveB.value>>>>
                 ELSE /\ lastFan' = <<>>
                      /\ UNCHANGED recv
  /\ UNCHANGED fixedB

(***************************************************************************)
(* PART 2. Compartments, the linker and module instances.                  *)
(*                                                                         *)
(* The host of the model is the one of test/import.test.js: compartment B  *)
(* holds a diamond (main -> left, right -> leaf), a dependency cycle       *)
(* (p -> q -> p) that passes through a third-party module (p -> tp -> q),  *)
(* a moduleMap entry x for A.module("y") and a moduleMapHook that maps h   *)
(* to A.module("leaf"); compartments A and B load the same leaf source.    *)
(* A holds even and B holds odd, which import each other through the       *)
(* moduleMapHook of their compartments.  A also holds m and amb, which ask  *)
(* for a name their dependency does not provide, m2, which asks its second *)
(* dependency for such a name, the `export *` modules                      *)
(* r, r2, r3 and t over d1, d2 and d3, user, which imports from r, and the *)
(* cycle cd -> cu -> cr -> cd, in which cr re-exports cd with `export *`   *)
(* and cu and cd read names of the namespace objects they imported; sa and  *)
(* sb re-export each other with `export *`.                                *)
(***************************************************************************)

\* A and B were constructed with an importHook and a resolveHook; N was
\* constructed with neither, as a vessel for evaluating programs.
Comps == {"A", "B", "N"}
AllSpecs ==
  {"main", "left", "right", "leaf", "p", "q", "tp", "x", "h", "y", "even", "odd",
   "m", "amb", "d1", "d2", "d3", "r", "r2", "r3", "t", "user", "cd", "cu", "cr",
   "sa", "sb", "m2"}

\* The sources the import hooks of the two compartments can retrieve.
HasSource(c, s) ==
  \/ c = "A" /\ s \in {"y", "leaf", "even", "m", "amb", "d1", "d2", "d3", "r", "r2", "r3",
                       "t", "user", "cd", "cu", "cr", "sa", "sb", "m2"}
  \/ c = "B" /\ s \in {"main", "left", "right", "leaf", "p", "q", "tp", "odd"}

\* The import specifiers of each source, in the order of its update record.
Imports(c, s) ==
  CASE c = "B" /\ s = "main"  -> <<"left", "right", "x">>
    [] c = "B" /\ s = "left"  -> <<"./leaf">>
    [] c = "B" /\ s = "right" -> <<"leaf", "h">>
    [] c = "B" /\ s = "p"     -> <<"tp", "q">>
    [] c = "B" /\ s = "q"     -> <<"p", "tp">>
    [] c = "B" /\ s = "tp"    -> <<"q">>
    [] c = "A" /\ s = "even"  -> <<"odd">>
    [] c = "B" /\ s = "odd"   -> <<"even">>
    [] c = "A" /\ s = "m"     -> <<"leaf">>
    [] c = "A" /\ s = "amb"   -> <<"r">>
    [] c = "A" /\ s = "r"     -> <<"d1", "d2">>
    [] c = "A" /\ s = "r2"    -> <<"d2", "d1">>
    [] c = "A" /\ s = "r3"    -> <<"d2", "d1", "d3">>
    [] c = "A" /\ s = "t"     -> <<"r">>
    [] c = "A" /\ s = "user"  -> <<"r">>
    [] c = "A" /\ s = "cd"    -> <<"cu", "cd">>
    [] c = "A" /\ s = "cu"    -> <<"cr">>
    [] c = "A" /\ s = "cr"    -> <<"cd">>
    [] c = "A" /\ s = "sa"    -> <<"sb">>
    [] c = "A" /\ s = "sb"    -> <<"sa", "d2">>
    [] c = "A" /\ s = "m2"    -> <<"d1", "leaf">>
    [] OTHER                  -> <<>>

\* The import and export names of the sources.
Names == {"default", "u", "v", "w", "missing", "*"}

\* The import names each source asks of an import specifier, in the order of
\* its update record: none for a bare import and for `export * from`, "*" for
\* `import * as`.
ImportNames(c, s, importSpecifier) ==
  CASE c = "A" /\ s = "m"    -> <<"missing">>
    [] c = "A" /\ s = "m2"   -> IF importSpecifier = "leaf" THEN <<"missing">> ELSE <<"v">>
    [] c = "A" /\ s = "amb"  -> <<"v">>
    [] c = "A" /\ s = "user" -> <<"u", "w">>
    [] c = "A" /\ s = "cu"   -> <<"*">>
    [] c = "A" /\ s = "cd"   -> IF importSpecifier = "cd" THEN <<"*">> ELSE <<>>
    [] c = "A" /\ s \in {"r", "r2", "r3", "t", "cr", "sa", "sb"} -> <<>>
    [] OTHER                 -> <<"v">>

\* The keys of __fixedExportMap__ and __liveExportMap__ of a parsed record,
\* the `exports` of a third-party record.
ExportNames(c, s) ==
  CASE c = "A" /\ s = "d1" -> {"v", "w", "default"}
    [] c = "A" /\ s = "d2" -> {"v", "u"}
    [] c = "A" /\ s = "d3" -> {"v", "default"}
    [] c = "A" /\ s = "r"  -> {"u"}
    [] c = "A" /\ s = "r2" -> {"default"}
    [] c = "A" /\ s = "r3" -> {"v"}
    [] c = "A" /\ s = "sa" -> {"w"}
    [] c = "A" /\ s \in {"t", "amb", "user", "cu", "cr", "sb"} -> {}
    [] c = "B" /\ s = "tp" -> {"v", "u"}
    [] OTHER               -> {"v"}

\* The `exports` list of a third-party static record.
exports(c, s) == IF c = "B" /\ s = "tp" THEN <<"v", "u">> ELSE <<>>

\* A value of the `exports` property of a static module record: its type,
\* whether it is truthy, and the elements of an array, each a string or not.
Value(type, truthy) == [type |-> type, truthy |-> truthy, elements |-> <<>>]
\* An array of elements <<name, whether it is a string>>.
Array(elements) == [type |-> "array", truthy |-> TRUE, elements |-> elements]

\* The endowments the compartments were constructed with: the properties
\* assigned to their global object.
Endowments(c) == IF c = "A" THEN {"double"} ELSE {}

\* The third-party static record the import hook returns for a specifier.
StaticModuleRecord(c, s) ==
  [exports |-> Array([k \in 1..Len(exports(c, s)) |-> <<exports(c, s)[k], TRUE>>])]

\* The export names in the order Array.prototype.sort gives them.
NameOrder == <<"*", "default", "missing", "u", "v", "w">>
\* keys(exportsProps).sort()
Sort(names) == SelectSeq(NameOrder, LAMBDA n : n \in names)

\* The `reexports` of a record: the specifiers of its `export * from`.
exportAlls(c, s) ==
  CASE c = "A" /\ s = "r"  -> {"d1", "d2"}
    [] c = "A" /\ s = "r2" -> {"d1", "d2"}
    [] c = "A" /\ s = "r3" -> {"d1", "d2", "d3"}
    [] c = "A" /\ s = "t"  -> {"r"}
    [] c = "A" /\ s = "cr" -> {"cd"}
    [] c = "A" /\ s = "sa" -> {"sb"}
    [] c = "A" /\ s = "sb" -> {"sa", "d2"}
    [] OTHER               -> {}

\* The export names the module body reads from the namespace object it
\* imported from a specifier.
NamespaceReads(c, s) ==
  IF c = "A" /\ s = "cu" THEN {<<"cr", "v">>}
  ELSE IF c = "A" /\ s = "cd" THEN {<<"cd", "v">>}
  ELSE {}

\* A static record with an `exports` list is a third-party record.
Kind(c, s) == IF s = "tp" THEN "thirdParty" ELSE "parsed"

resolveHook(importSpecifier, referrer) ==
  IF importSpecifier = "./leaf" THEN "leaf" ELSE importSpecifier

\* Objects are named by what created them and a generation number, so two
\* objects created for the same key are distinct objects.
NoProxy == <<"none", "none", 0>>
NoInst == <<"none", "none", 0>>
NoRecord == [compartment |-> "none", moduleSpecifier |-> "none", resolvedImports |-> <<>>]
NoCall == <<"none", "none">>

\* Values that flow through bindings and errors that are thrown.
UndefV == <<"undefined", NoInst, 0>>
Val(i, r) == <<"val", i, r>>
Err(i, r) == <<"err", i, r>>
InternalErr(i, r) == <<"internal", i, r>>
Ok == <<"ok", NoInst, 0>>
NoErr == <<"none", NoInst, 0>>
SyntaxErr(importSpecifier, importName) == <<"SyntaxError", <<importSpecifier, importName, 0>>, 0>>
ReferenceErr(i) == <<"ReferenceError", i, 0>>
TypeErr(c, s) == <<"TypeError", <<c, s, 0>>, 0>>
\* proxiedExports of an instance, as a value: what `import * as` receives.
Namespace(i) == <<"namespace", i, 0>>
\* candidateAll[name] = false
NotCandidate == <<"false", "false", 0>>

\* B was constructed with moduleMap {x: A.module("y")}.
moduleMap(c, s) == IF c = "B" /\ s = "x" THEN <<"A", "y", 1>> ELSE NoProxy

\* B's moduleMapHook returns A.module("leaf") for h and for x, which the
\* moduleMap has too, and A.module("even") for even; A's returns
\* B.module("odd") for odd; undefined otherwise.
HookTarget(c, s) ==
  IF c = "B" /\ s \in {"h", "x"} THEN [compartment |-> "A", specifier |-> "leaf"]
  ELSE IF c = "B" /\ s = "even" THEN [compartment |-> "A", specifier |-> "even"]
  ELSE IF c = "A" /\ s = "odd" THEN [compartment |-> "B", specifier |-> "odd"]
  ELSE [compartment |-> "none", specifier |-> "none"]

\* LET with its value computed once, wherever it is evaluated.
Let(value, Body(_)) == CHOOSE r \in {Body(v) : v \in {value}} : TRUE

\* The state the operations below read and change, as one record.
Heap ==
  [moduleRecords |-> moduleRecords, hookCalls |-> hookCalls,
   deferredExports |-> deferredExports, proxyGen |-> proxyGen,
   moduleAliases |-> moduleAliases, active |-> active, instances |-> instances,
   instGen |-> instGen, inst |-> inst, stack |-> stack, exc |-> exc,
   call |-> call, returned |-> returned, thrown |-> thrown, disc |-> disc]

SetHeap(heap) ==
  \E h \in {heap} :
    /\ moduleRecords' = h.moduleRecords
    /\ hookCalls' = h.hookCalls
    /\ deferredExports' = h.deferredExports
    /\ proxyGen' = h.proxyGen
    /\ moduleAliases' = h.moduleAliases
    /\ active' = h.active
    /\ instances' = h.instances
    /\ instGen' = h.instGen
    /\ inst' = h.inst
    /\ stack' = h.stack
    /\ exc' = h.exc
    /\ call' = h.call
    /\ returned' = h.returned
    /\ thrown' = h.thrown
    /\ disc' = h.disc

EInit ==
  /\ moduleRecords = [c \in Comps |-> [s \in AllSpecs |-> NoRecord]]
  /\ hookCalls = [c \in Comps |-> [s \in AllSpecs |-> 0]]
  /\ deferredExports = [c \in Comps |-> [s \in AllSpecs |->
                          IF c = "A" /\ s = "y" THEN <<"A", "y", 1>> ELSE NoProxy]]
  /\ proxyGen = [c \in Comps |-> [s \in AllSpecs |-> IF c = "A" /\ s = "y" THEN 1 ELSE 0]]
  /\ moduleAliases = (<<"A", "y", 1>> :> [compartment |-> "A", specifier |-> "y"])
  /\ active = {}
  /\ instances = [c \in Comps |-> [s \in AllSpecs |-> NoInst]]
  /\ instGen = [c \in Comps |-> [s \in AllSpecs |-> 0]]
  /\ inst = <<>>
  /\ stack = <<>>
  /\ exc = NoErr
  /\ call = NoCall
  /\ returned = [c \in Comps |-> [s \in AllSpecs |-> {}]]
  /\ thrown = [c \in Comps |-> [s \in AllSpecs |-> {}]]
  /\ moduleRet = [c \in Comps |-> [s \in AllSpecs |->
                    IF c = "A" /\ s = "y" THEN {<<"A", "y", 1>>} ELSE {}]]
  /\ calls = 0
  /\ disc = [c \in Comps |-> [s \in AllSpecs |-> "none"]]

\* getDeferredExports: the same proxy on repeated calls for (compartment,
\* specifier); a new one is registered in moduleAliases.
getDeferredExports(h, c, s) ==
  IF h.deferredExports[c][s] # NoProxy THEN h
  ELSE LET proxy == <<c, s, h.proxyGen[c][s] + 1>> IN
       [h EXCEPT !.deferredExports[c][s] = proxy,
                 !.proxyGen[c][s] = @ + 1,
                 !.moduleAliases = @ @@ (proxy :> [compartment |-> c, specifier |-> s])]

\* The heap after moduleMapHook(s) ran: the hook calls module() of its target.
AfterMapHook(h, c, s) ==
  IF moduleMap(c, s) = NoProxy /\ HookTarget(c, s).compartment # "none"
    THEN getDeferredExports(h, HookTarget(c, s).compartment, HookTarget(c, s).specifier)
    ELSE h

\* The alias namespace taken from moduleMapHook first, then from moduleMap.
AliasNamespace_hookFirst(h, c, s) ==
  IF HookTarget(c, s).compartment # "none"
       /\ h.deferredExports[HookTarget(c, s).compartment][HookTarget(c, s).specifier] # NoProxy
    THEN h.deferredExports[HookTarget(c, s).compartment][HookTarget(c, s).specifier]
  ELSE moduleMap(c, s)

\* The alias namespace of a specifier: moduleMap first, then moduleMapHook.
AliasNamespace(h, c, s) ==
  IF moduleMap(c, s) # NoProxy THEN moduleMap(c, s)
  ELSE IF HookTarget(c, s).compartment # "none"
    THEN h.deferredExports[HookTarget(c, s).compartment][HookTarget(c, s).specifier]
    ELSE NoProxy

ResolvedImports(c, s) ==
  [i \in {Imports(c, s)[k] : k \in 1..Len(Imports(c, s))} |-> resolveHook(i, s)]

RECURSIVE LoadRec(_, _, _)
RECURSIVE LoadEach(_, _, _, _)
\* load, run to completion with every hook call succeeding.
LoadRec(h, c, s) ==
  LET h1 == AfterMapHook(h, c, s)
      aliasNamespace == AliasNamespace(h1, c, s)
  IN IF aliasNamespace # NoProxy
       THEN LET alias == h1.moduleAliases[aliasNamespace]
                h2 == LoadRec(h1, alias.compartment, alias.specifier)
            IN [h2 EXCEPT !.disc[c][s] = "alias",
                          !.moduleRecords[c][s] =
                            h2.moduleRecords[alias.compartment][alias.specifier]]
     ELSE IF h1.moduleRecords[c][s].compartment # "none" THEN h1
     ELSE LET record == [compartment |-> c, moduleSpecifier |-> s,
                         resolvedImports |-> ResolvedImports(c, s)]
              h2 == [h1 EXCEPT !.hookCalls[c][s] = @ + 1,
                               !.disc[c][s] = "stored",
                               !.moduleRecords[c][s] = record]
          IN LoadEach(h2, c, s, 1)

LoadEach(h, c, s, k) ==
  IF k > Len(Imports(c, s)) THEN h
  ELSE LoadEach(LoadRec(h, c, resolveHook(Imports(c, s)[k], s)), c, s, k + 1)

\* A new module instance for a module record: makeModuleInstance or
\* makeThirdPartyModuleInstance up to their return.
NewInstance(kind, proxy) ==
  [kind |-> kind,
   exportsProxy |-> proxy,
   importedInstances |-> <<>>,
   optFunctor |-> (kind = "parsed"),
   didThrow |-> FALSE,
   thrownError |-> NoErr,
   activated |-> FALSE,
   value |-> UndefV,
   tdz |-> (kind = "parsed"),
   updaters |-> <<>>,
   keys |-> <<>>,
   setters |-> {},
   globalObject |-> "none",
   free |-> {},
   seen |-> <<>>,
   candidateAll |-> ("default" :> NotCandidate),
   forwardNotifiers |-> <<>>,
   forwarded |-> <<>>,
   reads |-> {},
   runs |-> 0,
   outcomes |-> {}]

\* makeModuleInstance that makes an exports proxy of its own instead of
\* taking the deferred one.
makeModuleInstance_ownProxy(h, record) ==
  LET c == record.compartment
      s == record.moduleSpecifier
      proxy == <<c, s, h.proxyGen[c][s] + 1>>
      id == <<c, s, h.instGen[c][s] + 1>>
  IN [h EXCEPT !.proxyGen[c][s] = @ + 1,
               !.instGen[c][s] = @ + 1,
               !.inst = @ @@ (id :> NewInstance("parsed", proxy))]

\* makeModuleInstance that looks the deferred exports up by specifier alone,
\* in one table for all compartments.
makeModuleInstance_sharedProxy(h, record) ==
  LET c == record.compartment
      s == record.moduleSpecifier
      h1 == getDeferredExports(h, "A", s)
      id == <<c, s, h1.instGen[c][s] + 1>>
  IN [h1 EXCEPT !.instGen[c][s] = @ + 1,
                !.inst = @ @@ (id :> NewInstance("parsed", h1.deferredExports["A"][s]))]

\* makeModuleInstance that evaluates every functor with the global object
\* of compartment A.
makeModuleInstance_globalOfA(h, record) ==
  LET c == record.compartment
      s == record.moduleSpecifier
      h1 == getDeferredExports(h, c, s)
      id == <<c, s, h1.instGen[c][s] + 1>>
  IN [h1 EXCEPT !.instGen[c][s] = @ + 1,
                !.inst = @ @@ (id :> [NewInstance("parsed", h1.deferredExports[c][s])
                                        EXCEPT !.globalObject = "A"])]

\* makeModuleInstance that runs the functor while it constructs the instance.
makeModuleInstance_runsFunctor(h, record) ==
  LET c == record.compartment
      s == record.moduleSpecifier
      h1 == getDeferredExports(h, c, s)
      id == <<c, s, h1.instGen[c][s] + 1>>
  IN [h1 EXCEPT !.instGen[c][s] = @ + 1,
                !.active = @ \cup {h1.deferredExports[c][s]},
                !.inst = @ @@ (id :> [NewInstance("parsed", h1.deferredExports[c][s])
                                        EXCEPT !.globalObject = c,
                                               !.optFunctor = FALSE,
                                               !.runs = 1,
                                               !.tdz = FALSE,
                                               !.value = Val(id, 1)])]

\* makeModuleInstance: the exports proxy comes from getDeferredExports for the
\* record's compartment and specifier; the functor is evaluated, not run, by
\* the record's compartment, with the global object of that compartment.
makeModuleInstance(h, record) ==
  LET c == record.compartment
      s == record.moduleSpecifier
      h1 == getDeferredExports(h, c, s)
      id == <<c, s, h1.instGen[c][s] + 1>>
  IN [h1 EXCEPT !.instGen[c][s] = @ + 1,
                !.inst = @ @@ (id :> [NewInstance("parsed", h1.deferredExports[c][s])
                                        EXCEPT !.globalObject = c])]

\* makeThirdPartyModuleInstance: a mutable binding per declared export, whose
\* value starts as proxiedExports[name]; a property with a getter and a
\* setter is defined on proxiedExports for each name, in the order of the
\* `exports` list.
\* A truthy `exports` that is no array of strings is refused with a
\* TypeError; a falsy one declares no export.
makeThirdPartyModuleInstance(h, record, staticModuleRecord) ==
  LET c == record.compartment
      s == record.moduleSpecifier
      h1 == getDeferredExports(h, c, s)
      id == <<c, s, h1.instGen[c][s] + 1>>
      e == staticModuleRecord.exports
      names == IF e.truthy THEN [k \in 1..Len(e.elements) |-> e.elements[k][1]] ELSE <<>>
  IN IF e.truthy /\ (e.type # "array" \/ \E k \in 1..Len(e.elements) : ~e.elements[k][2])
       THEN [h1 EXCEPT !.exc = TypeErr(c, s)]
       ELSE [h1 EXCEPT !.instGen[c][s] = @ + 1,
                       !.inst = @ @@ (id :>
                         [NewInstance("thirdParty", h1.deferredExports[c][s])
                            EXCEPT !.keys = names,
                                   !.setters = {names[k] : k \in 1..Len(names)}])]

\* The endowment names the functor of instance i resolves as free
\* variables: the properties of the global object it was evaluated with.
FreeVariables(h, i) ==
  IF h.inst[i].globalObject = "none" THEN {} ELSE Endowments(h.inst[i].globalObject)

\* The instance a constructor call just created for (c, s).
Newest(h, c, s) == <<c, s, h.instGen[c][s]>>

RECURSIVE link(_, _, _)
RECURSIVE linkEach(_, _, _, _, _)
\* link: the instance of a full specifier in a compartment and of all its
\* transitive dependencies, none of them executed.
link(heap, c, s) ==
  Let(heap, LAMBDA h :
    IF h.instances[c][s] # NoInst THEN h
    ELSE LET record == h.moduleRecords[c][s] IN
         IF record.compartment # c \/ record.moduleSpecifier # s
           THEN LET h1 == link(h, record.compartment, record.moduleSpecifier) IN
                [h1 EXCEPT !.instances[c][s] =
                             h1.instances[record.compartment][record.moduleSpecifier]]
           ELSE LET h1 == IF Kind(c, s) = "parsed"
                                THEN makeModuleInstance(h, record)
                                ELSE makeThirdPartyModuleInstance(h, record, StaticModuleRecord(c, s))
                    h2 == [h1 EXCEPT !.instances[c][s] = Newest(h1, c, s)]
                IN linkEach(h2, c, s, Newest(h1, c, s), 1))

\* Linking of the imports that, when it comes back to a specifier whose
\* instance is still under construction, makes another instance for it.
linkEach_secondInstance(heap, c, s, id, k) ==
  Let(heap, LAMBDA h :
    IF k > Len(Imports(c, s)) THEN h
    ELSE LET importSpecifier == Imports(c, s)[k]
             full == h.moduleRecords[c][s].resolvedImports[importSpecifier]
             h1 == link(h, c, full)
             found == h1.instances[c][full]
             partial == /\ found[1] = c
                        /\ Kind(c, found[2]) = "parsed"
                        /\ DOMAIN h1.inst[found].importedInstances
                             # {Imports(c, found[2])[j] : j \in 1..Len(Imports(c, found[2]))}
             h2 == IF partial THEN makeModuleInstance(h1, h1.moduleRecords[c][found[2]]) ELSE h1
             imported == IF partial THEN Newest(h2, c, found[2]) ELSE found
         IN linkEach([h2 EXCEPT !.inst[id].importedInstances = @ @@ (importSpecifier :> imported)],
                     c, s, id, k + 1))

linkEach(heap, c, s, id, k) ==
  Let(heap, LAMBDA h :
    IF k > Len(Imports(c, s)) THEN h
    ELSE LET importSpecifier == Imports(c, s)[k]
             h1 == link(h, c, h.moduleRecords[c][s].resolvedImports[importSpecifier])
             imported == h1.instances[c][h.moduleRecords[c][s].resolvedImports[importSpecifier]]
         IN linkEach([h1 EXCEPT !.inst[id].importedInstances = @ @@ (importSpecifier :> imported)],
                     c, s, id, k + 1))

Top(h) == h.stack[Len(h.stack)]
Pop(h) == [h EXCEPT !.stack = SubSeq(@, 1, Len(@) - 1)]
OnStack(h, i) == \E k \in 1..Len(h.stack) : h.stack[k].inst = i
Frame(i, pc, k) == [inst |-> i, pc |-> pc, k |-> k]

\* The outcome of one execute() call on instance i: of the call that ran the
\* functor ("run"), of a call made while the functor was running ("reentrant"),
\* or of a call made after it had finished ("later").
LogOutcome(h, i, kind, res) == [h EXCEPT !.inst[i].outcomes = @ \cup {<<kind, res>>}]
CallKind(h, i) == IF OnStack(h, i) THEN "reentrant" ELSE "later"

\* An updater <<importer, key>>: the one of an import stores the value in the
\* importer's variable for the import specifier; the one of a forwarding
\* binding (`update` in imports) stores it in the binding of the export name.
RunUpdater(h, updater, v) ==
  IF updater[2] \in Names
    THEN [h EXCEPT !.inst[updater[1]].forwarded = (updater[2] :> v) @@ @]
    ELSE [h EXCEPT !.inst[updater[1]].seen = (updater[2] :> v) @@ @]

RECURSIVE RunUpdaters(_, _, _)
RunUpdaters(h, updaters, v) ==
  IF updaters = <<>> THEN h
  ELSE RunUpdaters(RunUpdater(h, Head(updaters), v), Tail(updaters), v)

\* notify of the exported binding of a parsed instance (a fixed binding).
notifyFixed(h, i, updater) ==
  IF h.inst[i].tdz
    THEN [h EXCEPT !.inst[i].updaters = Append(@, updater)]
    ELSE RunUpdater(h, updater, h.inst[i].value)

\* notifiers[name] of a third-party instance.
notifyThirdParty(h, i, updater) ==
  RunUpdater([h EXCEPT !.inst[i].updaters = Append(@, updater)], updater, h.inst[i].value)

\* The notifiers of instance i: one per export name of its record and, for a
\* parsed instance, notifyStar under "*"; imports() adds the forwarded ones.
OwnNotifiers(h, i) ==
  ExportNames(i[1], i[2]) \cup (IF h.inst[i].kind = "parsed" THEN {"*"} ELSE {})

Notifiers(h, i) == OwnNotifiers(h, i) \cup DOMAIN h.inst[i].forwardNotifiers

\* The instance whose binding notifiers[name] of instance i belongs to.
NotifierOrigin(h, i, name) ==
  IF name \in OwnNotifiers(h, i) THEN i ELSE h.inst[i].forwardNotifiers[name]

\* notifiers[name](updater) of instance i.
notify(h, i, name, updater) ==
  LET origin == NotifierOrigin(h, i, name) IN
  IF name = "*" THEN RunUpdater(h, updater, Namespace(i))
  ELSE IF h.inst[origin].kind = "parsed" THEN notifyFixed(h, origin, updater)
  ELSE notifyThirdParty(h, origin, updater)

RECURSIVE Subscribe(_, _, _, _, _)
\* The loop over the import names that passes over a name without a notifier.
Subscribe_skipMissing(h, i, importSpecifier, updater, importNames) ==
  IF importNames = <<>> THEN h
  ELSE IF Head(importNames) \notin Notifiers(h, i)
    THEN Subscribe(h, i, importSpecifier, updater, Tail(importNames))
  ELSE Subscribe(notify(h, i, Head(importNames), updater),
                 i, importSpecifier, updater, Tail(importNames))

\* imports(), the loop over the import names of one specifier: a name without
\* a notifier is a SyntaxError.
Subscribe(h, i, importSpecifier, updater, importNames) ==
  IF importNames = <<>> THEN h
  ELSE IF Head(importNames) \notin Notifiers(h, i)
    THEN [h EXCEPT !.exc = SyntaxErr(importSpecifier, Head(importNames))]
  ELSE Subscribe(notify(h, i, Head(importNames), updater),
                 i, importSpecifier, updater, Tail(importNames))

\* The candidates in which a later `export *` source replaces an earlier one.
Candidates_lastWins(h, a, i) ==
  LET old == h.inst[a].candidateAll IN
  [h EXCEPT !.inst[a].candidateAll =
     [importName \in DOMAIN old \cup Notifiers(h, i) |->
        IF importName \notin Notifiers(h, i) THEN old[importName]
        ELSE IF importName \in DOMAIN old /\ old[importName] = NotCandidate THEN NotCandidate
        ELSE NotifierOrigin(h, i, importName)]]

\* imports(), for a specifier of exportAlls: every notifier of the instance
\* becomes a candidate, or stops being one if the name already was.
Candidates(h, a, i) ==
  LET old == h.inst[a].candidateAll IN
  [h EXCEPT !.inst[a].candidateAll =
     [importName \in DOMAIN old \cup Notifiers(h, i) |->
        IF importName \notin Notifiers(h, i) THEN old[importName]
        ELSE IF importName \in DOMAIN old THEN NotCandidate
        ELSE NotifierOrigin(h, i, importName)]]

RECURSIVE Forward(_, _, _)
\* The forwarding bindings made without looking at the notifiers the instance
\* has of its own.
Forward_overLocal(h, a, importNames) ==
  IF importNames = {} THEN h
  ELSE LET importName == CHOOSE n \in importNames : TRUE
           origin == h.inst[a].candidateAll[importName]
       IN IF importName = "*" \/ origin = NotCandidate
            THEN Forward(h, a, importNames \ {importName})
            ELSE LET h1 == [h EXCEPT !.inst[a].forwardNotifiers = (importName :> origin) @@ @,
                                     !.inst[a].forwarded = (importName :> UndefV) @@ @]
                     h2 == IF h.inst[origin].kind = "parsed"
                             THEN notifyFixed(h1, origin, <<a, importName>>)
                             ELSE notifyThirdParty(h1, origin, <<a, importName>>)
                 IN Forward(h2, a, importNames \ {importName})

\* imports(), after the loop: a forwarding binding for every candidate that is
\* left and has no notifier in this instance.
Forward(h, a, importNames) ==
  IF importNames = {} THEN h
  ELSE LET importName == CHOOSE n \in importNames : TRUE
           origin == h.inst[a].candidateAll[importName]
       IN IF importName \in Notifiers(h, a) \/ origin = NotCandidate
            THEN Forward(h, a, importNames \ {importName})
            ELSE LET h1 == [h EXCEPT !.inst[a].forwardNotifiers = (importName :> origin) @@ @,
                                     !.inst[a].forwarded = (importName :> UndefV) @@ @]
                     h2 == IF h.inst[origin].kind = "parsed"
                             THEN notifyFixed(h1, origin, <<a, importName>>)
                             ELSE notifyThirdParty(h1, origin, <<a, importName>>)
                 IN Forward(h2, a, importNames \ {importName})

\* The keys of exportsProps, which imports() installs on proxiedExports.
ExportsProps(h, i) ==
  (Notifiers(h, i) \ {"*"})

\* Reading property `name` of proxiedExports of instance i: no property before
\* imports() installed them; the getter of a fixed binding throws while the
\* binding is uninitialized; the getter of a forwarding binding returns its
\* value.
ReadExport(h, i, name) ==
  IF h.inst[i].kind = "thirdParty"
    THEN IF name \in ExportNames(i[1], i[2]) THEN h.inst[i].value ELSE UndefV
  ELSE IF h.inst[i].exportsProxy \notin h.active THEN UndefV
  ELSE IF name \in ExportNames(i[1], i[2])
    THEN IF h.inst[i].tdz THEN ReferenceErr(i) ELSE h.inst[i].value
  ELSE IF name \in DOMAIN h.inst[i].forwarded THEN h.inst[i].forwarded[name]
  ELSE UndefV

\* The instance whose exports the proxy presents.
Proxied(h, proxy) == {i \in DOMAIN h.inst : h.inst[i].exportsProxy = proxy}

\* The traps of an activated exports proxy.  Assigning throws and changes
\* nothing, preventExtensions returns true, the prototype is null.
proxyHandler(h, proxy) ==
  [set |-> [heap |-> h, threw |-> "TypeError"],
   preventExtensions |-> TRUE,
   getPrototypeOf |-> Null]
proxyGet(h, proxy, name) ==
  LET i == CHOOSE i \in Proxied(h, proxy) : TRUE IN
  IF name \in {h.inst[i].keys[k] : k \in 1..Len(h.inst[i].keys)}
    THEN ReadExport(h, i, name) ELSE UndefV
\* The descriptor is the one of the property of proxiedExports.
proxyGetOwnPropertyDescriptor(h, proxy, name) ==
  LET i == CHOOSE i \in Proxied(h, proxy) : TRUE IN
  [defined |-> name \in {h.inst[i].keys[k] : k \in 1..Len(h.inst[i].keys)},
   set |-> name \in h.inst[i].setters,
   configurable |-> FALSE]
\* The keys are those of proxiedExports, in the order of their definition.
proxyOwnKeys(h, proxy) ==
  LET i == CHOOSE i \in Proxied(h, proxy) : TRUE IN h.inst[i].keys

\* What follows the normal return of execute() of instance i, in its caller:
\* importNow returns the exports proxy to the host; imports() subscribes the
\* importer's updaters to the notifiers of the names it asks for, notes the
\* candidates of `export *` and goes on to the next specifier; the body of a
\* third-party module goes on.
ReturnTo(h, i) ==
  IF h.stack = <<>>
    THEN [h EXCEPT !.returned[h.call[1]][h.call[2]] = @ \cup {h.inst[i].exportsProxy},
                   !.call = NoCall]
  ELSE IF Top(h).pc = "imports"
    THEN LET a == Top(h).inst
             importSpecifier == Imports(a[1], a[2])[Top(h).k]
             h1 == Subscribe(h, i, importSpecifier, <<a, importSpecifier>>,
                             ImportNames(a[1], a[2], importSpecifier))
             h2 == IF importSpecifier \in exportAlls(a[1], a[2])
                     THEN Candidates(h1, a, i) ELSE h1
         IN IF h1.exc # NoErr THEN h1
            ELSE [h2 EXCEPT !.stack[Len(h.stack)].k = @ + 1]
  ELSE [h EXCEPT !.stack[Len(h.stack)].k = @ + 1]

\* execute() that, called again while its functor is still running, waits for
\* the functor to finish instead of returning.
execute_waitsOnReentry(h, i) ==
  IF h.inst[i].optFunctor
    THEN [h EXCEPT !.inst[i].optFunctor = FALSE,
                   !.inst[i].runs = @ + 1,
                   !.stack = Append(@, Frame(i, "imports", 1))]
  ELSE IF OnStack(h, i) THEN h
  ELSE IF h.inst[i].didThrow
    THEN [LogOutcome(h, i, CallKind(h, i), h.inst[i].thrownError)
            EXCEPT !.exc = h.inst[i].thrownError]
  ELSE ReturnTo(LogOutcome(h, i, CallKind(h, i), Ok), i)

\* execute() that does not clear optFunctor before it calls the functor.
execute_keepFunctor(h, i) ==
  IF h.inst[i].optFunctor
    THEN [h EXCEPT !.inst[i].runs = @ + 1,
                   !.stack = Append(@, Frame(i, "imports", 1))]
  ELSE IF h.inst[i].didThrow
    THEN [LogOutcome(h, i, CallKind(h, i), h.inst[i].thrownError)
            EXCEPT !.exc = h.inst[i].thrownError]
  ELSE ReturnTo(LogOutcome(h, i, CallKind(h, i), Ok), i)

\* execute() that throws when it is called while its functor is running.
execute_throwsOnReentry(h, i) ==
  IF h.inst[i].optFunctor
    THEN [h EXCEPT !.inst[i].optFunctor = FALSE,
                   !.inst[i].runs = @ + 1,
                   !.stack = Append(@, Frame(i, "imports", 1))]
  ELSE IF h.inst[i].didThrow \/ OnStack(h, i)
    THEN [LogOutcome(h, i, CallKind(h, i), InternalErr(i, h.inst[i].runs))
            EXCEPT !.exc = InternalErr(i, h.inst[i].runs)]
  ELSE ReturnTo(LogOutcome(h, i, CallKind(h, i), Ok), i)

\* execute() of a parsed module instance.
execute(h, i) ==
  IF h.inst[i].optFunctor
    THEN [h EXCEPT !.inst[i].optFunctor = FALSE,
                   !.inst[i].runs = @ + 1,
                   !.stack = Append(@, Frame(i, "imports", 1))]
  ELSE IF h.inst[i].didThrow
    THEN [LogOutcome(h, i, CallKind(h, i), h.inst[i].thrownError)
            EXCEPT !.exc = h.inst[i].thrownError]
  ELSE ReturnTo(LogOutcome(h, i, CallKind(h, i), Ok), i)

\* execute() of a third-party instance that does not set `activated`.
executeThirdParty_noFlag(h, i) ==
  [h EXCEPT !.active = @ \cup {h.inst[i].exportsProxy},
            !.inst[i].runs = @ + 1,
            !.stack = Append(@, Frame(i, "tp", 0))]

\* execute() of a third-party module instance.
executeThirdParty(h, i) ==
  IF ~h.inst[i].activated
    THEN [h EXCEPT !.active = @ \cup {h.inst[i].exportsProxy},
                   !.inst[i].activated = TRUE,
                   !.inst[i].runs = @ + 1,
                   !.stack = Append(@, Frame(i, "tp", 0))]
  ELSE ReturnTo(LogOutcome(h, i, CallKind(h, i), Ok), i)

\* instance.execute()
callExecute(h, i) ==
  IF h.inst[i].kind = "parsed" THEN execute(h, i) ELSE executeThirdParty(h, i)

\* The compartment objects the host constructs while the model runs.
Objs == {"K1"}

\* The own property names of the globalLexicals option; "a-b" is not a valid
\* identifier name.
LexNames == {"x", "a-b"}
\* The property is absent.
Absent == -2

\* privateFields.get(compartment) of an object the constructor has not
\* registered: undefined.
NoFields ==
  [registered |-> FALSE, importHook |-> FALSE, resolveHook |-> FALSE,
   globalLexicals |-> [frozen |-> FALSE, props |-> [n \in LexNames |-> Absent]]]

\* typeof importHook === 'function' && typeof resolveHook === 'function';
\* destructuring the undefined fields of an unregistered object throws too.
assertModuleHooks(compartment) ==
  /\ privateFields[compartment].registered
  /\ privateFields[compartment].importHook
  /\ privateFields[compartment].resolveHook

\* No call of the host is in progress.
Idle == stack = <<>> /\ exc = NoErr

\* The specifiers the host passes to module, load and importNow.
HostSpecs(c) ==
  CASE c = "A" -> {"y", "leaf"}
    [] c = "B" -> {"main", "leaf", "p", "tp", "x"}
    [] OTHER   -> {}

\* The sources whose module body can throw.
Throws(c, s) == (c = "A" /\ s = "y") \/ (c = "B" /\ s \in {"right", "p", "q", "tp"})

\* module() that makes a new exports proxy on every call.
module_freshProxy(c, s) ==
  /\ Idle
  /\ calls < MaxCalls
  /\ calls' = calls + 1
  /\ LET proxy == <<c, s, proxyGen[c][s] + 1>> IN
       /\ SetHeap([Heap EXCEPT !.deferredExports[c][s] = proxy,
                               !.proxyGen[c][s] = @ + 1,
                               !.moduleAliases = @ @@ (proxy :> [compartment |-> c, specifier |-> s])])
       /\ moduleRet' = [moduleRet EXCEPT ![c][s] = @ \cup {proxy}]
  /\ UNCHANGED <<bvars, cvars, gvars, lvars>>

\* module() that loads the specifier before it returns the proxy.
module_thenLoad(c, s) ==
  /\ Idle
  /\ calls < MaxCalls
  /\ calls' = calls + 1
  /\ LET h == LoadRec(getDeferredExports(Heap, c, s), c, s) IN
       /\ SetHeap(h)
       /\ moduleRet' = [moduleRet EXCEPT ![c][s] = @ \cup {h.deferredExports[c][s]}]
  /\ UNCHANGED <<bvars, cvars, gvars, lvars>>

\* module() that does not assert the hooks of the compartment.
module_noAssert(c, s) ==
  /\ Idle
  /\ calls < MaxCalls
  /\ calls' = calls + 1
  /\ LET h == getDeferredExports(Heap, c, s) IN
       /\ SetHeap(h)
       /\ moduleRet' = [moduleRet EXCEPT ![c][s] = @ \cup {h.deferredExports[c][s]}]
  /\ UNCHANGED <<bvars, cvars, gvars, lvars>>

\* compartment.module(specifier)
module(c, s) ==
  /\ Idle
  /\ assertModuleHooks(c)
  /\ calls < MaxCalls
  /\ calls' = calls + 1
  /\ LET h == getDeferredExports(Heap, c, s) IN
       /\ SetHeap(h)
       /\ moduleRet' = [moduleRet EXCEPT ![c][s] = @ \cup {h.deferredExports[c][s]}]
  /\ UNCHANGED <<bvars, cvars, gvars, lvars>>

\* compartment.load(specifier), up to the resolution of its promise.
load(c, s) ==
  /\ Idle
  /\ assertModuleHooks(c)
  /\ calls < MaxCalls
  /\ calls' = calls + 1
  /\ SetHeap(LoadRec(Heap, c, s))
  /\ UNCHANGED <<moduleRet, bvars, cvars, gvars, lvars>>

\* compartment.import(specifier): load, then importNow, up to the call of the
\* root's execute().
import(c, s) ==
  /\ Idle
  /\ assertModuleHooks(c)
  /\ calls < MaxCalls
  /\ calls' = calls + 1
  /\ LET h == link(LoadRec(Heap, c, s), c, s) IN
       SetHeap(callExecute([h EXCEPT !.call = <<c, s>>], h.instances[c][s]))
  /\ UNCHANGED <<moduleRet, bvars, cvars, gvars, lvars>>

\* compartment.importNow(specifier), up to the call of the root's execute().
importNow(c, s) ==
  /\ Idle
  /\ assertModuleHooks(c)
  /\ calls < MaxCalls
  /\ moduleRecords[c][s].compartment # "none"
  /\ calls' = calls + 1
  /\ LET h == link(Heap, c, s) IN
       SetHeap(callExecute([h EXCEPT !.call = <<c, s>>], h.instances[c][s]))
  /\ UNCHANGED <<moduleRet, bvars, cvars, gvars, lvars>>

Running == stack # <<>> /\ exc = NoErr

\* imports() that subscribes to the dependency without executing it.
importsStep_skipExecute ==
  /\ Running
  /\ Top(Heap).pc = "imports"
  /\ LET a == Top(Heap).inst
         k == Top(Heap).k
     IN /\ k <= Len(Imports(a[1], a[2]))
        /\ SetHeap(ReturnTo(Heap, inst[a].importedInstances[Imports(a[1], a[2])[k]]))
  /\ UNCHANGED <<moduleRet, calls, bvars, cvars, gvars, lvars>>

\* imports() that looks for the notifiers of the names it asks for before it
\* executes the dependency.
importsStep_checkFirst ==
  /\ Running
  /\ Top(Heap).pc = "imports"
  /\ LET a == Top(Heap).inst
         k == Top(Heap).k
     IN /\ k <= Len(Imports(a[1], a[2]))
        /\ LET importSpecifier == Imports(a[1], a[2])[k]
               i == inst[a].importedInstances[importSpecifier]
               importNames == ImportNames(a[1], a[2], importSpecifier)
               absent == {j \in 1..Len(importNames) : importNames[j] \notin Notifiers(Heap, i)}
           IN IF absent # {}
                THEN SetHeap([Heap EXCEPT !.exc =
                       SyntaxErr(importSpecifier,
                                 importNames[CHOOSE j \in absent : \A j2 \in absent : j <= j2])])
                ELSE SetHeap(callExecute(Heap, i))
  /\ UNCHANGED <<moduleRet, calls, bvars, cvars, gvars, lvars>>

\* imports(updateRecord), one specifier of the update record: the dependency
\* is executed, then the importer's updaters are subscribed.
importsStep ==
  /\ Running
  /\ Top(Heap).pc = "imports"
  /\ LET a == Top(Heap).inst
         k == Top(Heap).k
     IN /\ k <= Len(Imports(a[1], a[2]))
        /\ SetHeap(callExecute(Heap, inst[a].importedInstances[Imports(a[1], a[2])[k]]))
  /\ UNCHANGED <<moduleRet, calls, bvars, cvars, gvars, lvars>>

\* imports(updateRecord), after the loop: the forwarding bindings of
\* `export *` are made, the exports are installed on proxiedExports, which is
\* frozen, and the deferred exports are activated.
importsEnd ==
  /\ Running
  /\ Top(Heap).pc = "imports"
  /\ LET a == Top(Heap).inst IN
       /\ Top(Heap).k > Len(Imports(a[1], a[2]))
       /\ LET h == Forward(Heap, a, DOMAIN inst[a].candidateAll) IN
            SetHeap([h EXCEPT !.active = @ \cup {inst[a].exportsProxy},
                              !.inst[a].keys = Sort(ExportsProps(h, a)),
                              !.stack[Len(stack)].pc = "body"])
  /\ UNCHANGED <<moduleRet, calls, bvars, cvars, gvars, lvars>>

\* The module body initializes its export (onceVar init) and the functor
\* returns; init refuses a binding that is already initialized.
bodyReturn ==
  /\ Running
  /\ Top(Heap).pc = "body"
  /\ LET a == Top(Heap).inst
         v == Val(a, inst[a].runs)
     IN IF ~inst[a].tdz
          THEN SetHeap([Heap EXCEPT !.exc = InternalErr(a, inst[a].runs)])
          ELSE LET h1 == [Heap EXCEPT !.inst[a].value = v,
                                      !.inst[a].tdz = FALSE,
                                      !.inst[a].free = FreeVariables(Heap, a),
                                      !.inst[a].updaters = <<>>]
                   h2 == RunUpdaters(h1, inst[a].updaters, v)
               IN SetHeap(ReturnTo(Pop(LogOutcome(h2, a, "run", Ok)), a))
  /\ UNCHANGED <<moduleRet, calls, bvars, cvars, gvars, lvars>>

\* The module body throws before it has initialized its export.
bodyThrow ==
  /\ Running
  /\ Top(Heap).pc = "body"
  /\ Throws(Top(Heap).inst[1], Top(Heap).inst[2])
  /\ SetHeap([Heap EXCEPT !.exc = Err(Top(Heap).inst, inst[Top(Heap).inst].runs)])
  /\ UNCHANGED <<moduleRet, calls, bvars, cvars, gvars, lvars>>

\* The module body reads an export name of a namespace object it imported,
\* before it initializes its own export; a getter that throws ends the body.
bodyRead ==
  /\ Running
  /\ Top(Heap).pc = "body"
  /\ LET a == Top(Heap).inst IN
       /\ inst[a].reads = {}
       /\ \E rd \in NamespaceReads(a[1], a[2]) :
            LET i == inst[a].importedInstances[rd[1]]
                definer == IF rd[2] \in DOMAIN inst[i].forwardNotifiers
                             THEN inst[i].forwardNotifiers[rd[2]] ELSE i
                result == ReadExport(Heap, i, rd[2])
                h == [Heap EXCEPT !.inst[a].reads =
                        {[instance |-> i, name |-> rd[2], result |-> result,
                          tdz |-> inst[definer].tdz]}]
            IN SetHeap(IF result[1] = "ReferenceError" THEN [h EXCEPT !.exc = result] ELSE h)
  /\ UNCHANGED <<moduleRet, calls, bvars, cvars, gvars, lvars>>

\* The execute function of the third-party record calls
\* compartment.importNow on one of its resolved imports.
thirdPartyImportNow(importSpecifier) ==
  /\ Running
  /\ Top(Heap).pc = "tp"
  /\ Top(Heap).k < MaxNested
  /\ LET a == Top(Heap).inst
         full == moduleRecords[a[1]][a[2]].resolvedImports[importSpecifier]
         h == link(Heap, a[1], full)
     IN SetHeap(callExecute(h, h.instances[a[1]][full]))
  /\ UNCHANGED <<moduleRet, calls, bvars, cvars, gvars, lvars>>

\* The execute function of the third-party record writes its export through
\* the setter on proxiedExports and returns.
thirdPartyReturn ==
  /\ Running
  /\ Top(Heap).pc = "tp"
  /\ LET a == Top(Heap).inst
         v == Val(a, inst[a].runs)
         h1 == [Heap EXCEPT !.inst[a].value = v]
         h2 == RunUpdaters(h1, inst[a].updaters, v)
     IN SetHeap(ReturnTo(Pop(LogOutcome(h2, a, "run", Ok)), a))
  /\ UNCHANGED <<moduleRet, calls, bvars, cvars, gvars, lvars>>

\* The execute function of the third-party record throws.
thirdPartyThrow ==
  /\ Running
  /\ Top(Heap).pc = "tp"
  /\ Throws(Top(Heap).inst[1], Top(Heap).inst[2])
  /\ SetHeap([Heap EXCEPT !.exc = Err(Top(Heap).inst, inst[Top(Heap).inst].runs)])
  /\ UNCHANGED <<moduleRet, calls, bvars, cvars, gvars, lvars>>

\* execute() whose catch clause does not record the failure.
executeCatch_notSticky ==
  /\ exc # NoErr
  /\ stack # <<>>
  /\ inst[Top(Heap).inst].kind = "parsed"
  /\ SetHeap(Pop(LogOutcome(Heap, Top(Heap).inst, "run", exc)))
  /\ UNCHANGED <<moduleRet, calls, bvars, cvars, gvars, lvars>>

\* execute() whose catch clause throws an error of its own in place of the
\* one it caught.
executeCatch_ownError ==
  /\ exc # NoErr
  /\ stack # <<>>
  /\ inst[Top(Heap).inst].kind = "parsed"
  /\ LET a == Top(Heap).inst
         e == Err(a, inst[a].runs)
     IN SetHeap(Pop(LogOutcome([Heap EXCEPT !.inst[a].didThrow = TRUE,
                                            !.inst[a].thrownError = e,
                                            !.exc = e],
                               a, "run", e)))
  /\ UNCHANGED <<moduleRet, calls, bvars, cvars, gvars, lvars>>

\* execute() of a parsed instance catches what its functor throws, makes it
\* sticky and throws it.
executeCatch ==
  /\ exc # NoErr
  /\ stack # <<>>
  /\ inst[Top(Heap).inst].kind = "parsed"
  /\ LET a == Top(Heap).inst IN
       SetHeap(Pop(LogOutcome([Heap EXCEPT !.inst[a].didThrow = TRUE,
                                           !.inst[a].thrownError = exc],
                              a, "run", exc)))
  /\ UNCHANGED <<moduleRet, calls, bvars, cvars, gvars, lvars>>

\* execute() of a third-party instance lets the exception through.
thirdPartyUnwind ==
  /\ exc # NoErr
  /\ stack # <<>>
  /\ inst[Top(Heap).inst].kind = "thirdParty"
  /\ SetHeap(Pop(LogOutcome(Heap, Top(Heap).inst, "run", exc)))
  /\ UNCHANGED <<moduleRet, calls, bvars, cvars, gvars, lvars>>

\* importNow throws to the host what execute() of the root threw.
importNowThrow ==
  /\ exc # NoErr
  /\ stack = <<>>
  /\ SetHeap([Heap EXCEPT !.thrown[call[1]][call[2]] = @ \cup {exc},
                          !.exc = NoErr,
                          !.call = NoCall])
  /\ UNCHANGED <<moduleRet, calls, bvars, cvars, gvars, lvars>>

ENext ==
  \/ \E c \in Comps : \E s \in HostSpecs(c) : module(c, s)
  \/ \E c \in Comps : \E s \in HostSpecs(c) : load(c, s)
  \/ \E c \in Comps : \E s \in HostSpecs(c) : import(c, s)
  \/ \E c \in Comps : \E s \in HostSpecs(c) : importNow(c, s)
  \/ importsStep
  \/ importsEnd
  \/ bodyReturn
  \/ bodyThrow
  \/ \E i \in {"q"} : thirdPartyImportNow(i)
  \/ thirdPartyReturn
  \/ thirdPartyThrow
  \/ executeCatch
  \/ thirdPartyUnwind
  \/ importNowThrow

(***************************************************************************)
(* PART 3. The loader, with its asynchronous steps: the import hook of a   *)
(* specifier is called when the specifier is discovered and settles later, *)
(* in any order; a record is stored when its hook call resolves.           *)
(***************************************************************************)
\* The sources whose import hook call can reject.
CanFail(c, s) == (c = "A" /\ s = "y") \/ (c = "B" /\ s \in {"right", "q"})

LoadErr(c, s) == <<"err", <<c, s, 0>>, 0>>

AliasTarget(h, c, s) == h.moduleAliases[AliasNamespace(h, c, s)]

RECURSIVE discover(_, _, _)
\* Loading one specifier without the per-specifier guard: the import hook is
\* called whether or not the specifier is already known.
discover_noGuard(h, c, s) ==
  LET h1 == AfterMapHook(h, c, s) IN
  IF AliasNamespace(h1, c, s) # NoProxy
    THEN discover([h1 EXCEPT !.disc[c][s] = "alias"],
                  AliasTarget(h1, c, s).compartment, AliasTarget(h1, c, s).specifier)
  ELSE [h1 EXCEPT !.hookCalls[c][s] = @ + 1, !.disc[c][s] = "pending"]

\* Loading one specifier with a guard that forgets failures: a specifier whose
\* import hook call rejected is requested again.
discover_retryFailed(heap, c, s) ==
  Let(heap, LAMBDA h :
    LET h1 == AfterMapHook(h, c, s) IN
    IF AliasNamespace(h1, c, s) # NoProxy
      THEN discover([h1 EXCEPT !.disc[c][s] = "alias"],
                    AliasTarget(h1, c, s).compartment, AliasTarget(h1, c, s).specifier)
    ELSE IF h1.disc[c][s] \notin {"none", "failed"} THEN h1
    ELSE [h1 EXCEPT !.hookCalls[c][s] = @ + 1, !.disc[c][s] = "pending"])

\* The synchronous part of loading one specifier: an alias delegates to the
\* target compartment; a specifier already known is not requested again;
\* otherwise the import hook is called.
discover(heap, c, s) ==
  Let(heap, LAMBDA h :
    LET h1 == AfterMapHook(h, c, s) IN
    IF AliasNamespace(h1, c, s) # NoProxy
      THEN discover([h1 EXCEPT !.disc[c][s] = "alias"],
                    AliasTarget(h1, c, s).compartment, AliasTarget(h1, c, s).specifier)
    ELSE IF h1.disc[c][s] # "none" THEN h1
    ELSE [h1 EXCEPT !.hookCalls[c][s] = @ + 1, !.disc[c][s] = "pending"])

RECURSIVE discoverEach(_, _, _, _)
discoverEach(heap, c, s, k) ==
  Let(heap, LAMBDA h :
    IF k > Len(Imports(c, s)) THEN h
    ELSE discoverEach(discover(h, c, resolveHook(Imports(c, s)[k], s)), c, s, k + 1))

\* An alias specifier gets the record of its target once the target has one.
StoreAliases(heap) ==
  Let(heap, LAMBDA h :
    [h EXCEPT !.moduleRecords =
       [c \in Comps |-> [s \in AllSpecs |->
          IF h.disc[c][s] = "alias"
            THEN h.moduleRecords[AliasTarget(h, c, s).compartment][AliasTarget(h, c, s).specifier]
            ELSE h.moduleRecords[c][s]]]])

\* The modules one step away from a discovered module.
Succ(x) ==
  IF disc[x[1]][x[2]] = "alias"
    THEN {<<AliasTarget(Heap, x[1], x[2]).compartment, AliasTarget(Heap, x[1], x[2]).specifier>>}
  ELSE IF disc[x[1]][x[2]] = "stored"
    THEN {<<x[1], resolveHook(Imports(x[1], x[2])[k], x[2])>> : k \in 1..Len(Imports(x[1], x[2]))}
  ELSE {}

RECURSIVE Closure(_)
Closure(S) ==
  LET N == S \cup UNION {Succ(x) : x \in S} IN
  IF N = S THEN S ELSE Closure(N)

\* The modules discovered so far that are reachable from (c, s).
Reach(c, s) == Closure({<<c, s>>})

\* compartment.load(specifier), up to its first await.
loadStart(c, s) ==
  /\ assertModuleHooks(c)
  /\ calls < MaxCalls
  /\ calls' = calls + 1
  /\ loadCalls' = [loadCalls EXCEPT ![c][s] = @ + 1]
  /\ settle' = [settle EXCEPT ![c][s].state = IF @ = "none" THEN "pending" ELSE @]
  /\ SetHeap(StoreAliases(discover(Heap, c, s)))
  /\ UNCHANGED <<moduleRet, bvars, cvars, gvars, importing>>

\* The import hook call for (c, s) resolves with a static module record: the
\* record is stored with its resolved imports, and each import is discovered.
hookResolve(c, s) ==
  /\ Idle
  /\ disc[c][s] = "pending"
  /\ LET record == [compartment |-> c, moduleSpecifier |-> s,
                    resolvedImports |-> ResolvedImports(c, s)]
         h == [Heap EXCEPT !.disc[c][s] = "stored", !.moduleRecords[c][s] = record]
     IN SetHeap(StoreAliases(discoverEach(h, c, s, 1)))
  /\ UNCHANGED <<moduleRet, calls, bvars, cvars, gvars, lvars>>

\* The import hook call for (c, s) rejects.
hookReject(c, s) ==
  /\ Idle
  /\ disc[c][s] = "pending"
  /\ CanFail(c, s)
  /\ SetHeap([Heap EXCEPT !.disc[c][s] = "failed"])
  /\ UNCHANGED <<moduleRet, calls, bvars, cvars, gvars, lvars>>

\* load() whose promise resolves as soon as the record of the root is stored.
loadResolve_rootOnly(c, s) ==
  /\ settle[c][s].state = "pending"
  /\ disc[c][s] \in {"stored", "alias"}
  /\ settle' = [settle EXCEPT ![c][s].state = "resolved"]
  /\ UNCHANGED <<evars, bvars, cvars, gvars, loadCalls, importing>>

\* The promise of load(s) resolves: every reachable record is present.
loadResolve(c, s) ==
  /\ settle[c][s].state = "pending"
  /\ \A x \in Reach(c, s) : disc[x[1]][x[2]] \in {"stored", "alias"}
  /\ settle' = [settle EXCEPT ![c][s].state = "resolved"]
  /\ UNCHANGED <<evars, bvars, cvars, gvars, loadCalls, importing>>

\* The promise of load(s) rejects with the error of a failed discovery.
loadReject(c, s) ==
  /\ settle[c][s].state = "pending"
  /\ \E x \in Reach(c, s) :
       /\ disc[x[1]][x[2]] = "failed"
       /\ settle' = [settle EXCEPT ![c][s] = [state |-> "rejected", error |-> LoadErr(x[1], x[2])]]
  /\ UNCHANGED <<evars, bvars, cvars, gvars, loadCalls, importing>>

LNext ==
  \/ \E c \in Comps : \E s \in HostSpecs(c) : loadStart(c, s)
  \/ \E c \in Comps : \E s \in AllSpecs : hookResolve(c, s)
  \/ \E c \in Comps : \E s \in AllSpecs : hookReject(c, s)
  \/ \E c \in Comps : \E s \in HostSpecs(c) : loadResolve(c, s)
  \/ \E c \in Comps : \E s \in HostSpecs(c) : loadReject(c, s)

(***************************************************************************)
(* PART 4. import() with its asynchronous load: load(specifier), then, in  *)
(* the callback of its promise, importNow(specifier).                      *)
(***************************************************************************)
\* The specifiers the host passes to import().
ImportRoots(c) ==
  CASE c = "A" -> {"even", "leaf"}
    [] c = "B" -> {"p"}
    [] OTHER   -> {}

\* compartment.import(specifier), up to the first await of load.
importStart(c, s) ==
  /\ Idle
  /\ assertModuleHooks(c)
  /\ calls < MaxCalls
  /\ importing[c][s].state = "none"
  /\ calls' = calls + 1
  /\ importing' = [importing EXCEPT ![c][s].state = "loading"]
  /\ SetHeap(StoreAliases(discover(Heap, c, s)))
  /\ UNCHANGED <<moduleRet, bvars, cvars, gvars, settle, loadCalls>>

\* The promise of load resolved: the callback calls importNow(specifier),
\* which links and calls execute() of the root.
importThen(c, s) ==
  /\ Idle
  /\ importing[c][s].state = "loading"
  /\ \A x \in Reach(c, s) : disc[x[1]][x[2]] \in {"stored", "alias"}
  /\ importing' = [importing EXCEPT ![c][s].state = "linked"]
  /\ LET h == link(Heap, c, s) IN
       SetHeap(callExecute([h EXCEPT !.call = <<c, s>>], h.instances[c][s]))
  /\ UNCHANGED <<moduleRet, calls, bvars, cvars, gvars, settle, loadCalls>>

\* The promise of load rejected: the promise of import rejects with its
\* error and the callback does not run.
importLoadReject(c, s) ==
  /\ Idle
  /\ importing[c][s].state = "loading"
  /\ \E x \in Reach(c, s) :
       /\ disc[x[1]][x[2]] = "failed"
       /\ importing' = [importing EXCEPT ![c][s] = [state |-> "rejected", error |-> LoadErr(x[1], x[2])]]
  /\ UNCHANGED <<evars, bvars, cvars, gvars, settle, loadCalls>>

\* The steps that follow a call of import() without the host.
IProgress ==
  \/ importsStep
  \/ importsEnd
  \/ bodyReturn
  \/ bodyThrow
  \/ \E i \in {"q"} : thirdPartyImportNow(i)
  \/ thirdPartyReturn
  \/ thirdPartyThrow
  \/ executeCatch
  \/ thirdPartyUnwind
  \/ importNowThrow
  \/ \E c \in Comps : \E s \in AllSpecs : hookReject(c, s)
  \/ \E c \in Comps : \E s \in ImportRoots(c) : importLoadReject(c, s)
  \/ \E c \in Comps : \E s \in AllSpecs : hookResolve(c, s)
  \/ \E c \in Comps : \E s \in ImportRoots(c) : importThen(c, s)

INext ==
  \/ \E c \in Comps : \E s \in ImportRoots(c) : importStart(c, s)
  \/ IProgress

\* The specifiers the host passes to load() beside import(): the roots, and q,
\* whose import hook call can reject.
LoadRoots(c) == IF c = "B" THEN ImportRoots(c) \cup {"q"} ELSE ImportRoots(c)

\* load() and import() of the host, interleaved.
LINext ==
  \/ INext
  \/ \E c \in Comps : \E s \in LoadRoots(c) : Idle /\ loadStart(c, s)
  \/ \E c \in Comps : \E s \in LoadRoots(c) : Idle /\ loadResolve(c, s)
  \/ \E c \in Comps : \E s \in LoadRoots(c) : Idle /\ loadReject(c, s)

\* The specifiers of A the host imports to exercise import names, `export *`
\* and reads of namespace objects.
NameRoots == {"m", "amb", "t", "r2", "r3", "user", "cd", "sa", "sb", "m2"}

NNext ==
  \/ \E s \in NameRoots : import("A", s)
  \/ \E s \in NameRoots : importNow("A", s)
  \/ importsStep
  \/ importsEnd
  \/ bodyRead
  \/ bodyReturn
  \/ executeCatch
  \/ importNowThrow

BNext ==
  \/ fixedGet
  \/ \E v \in Values : fixedInit(v)
  \/ \E u \in Updaters \cup {Self} : fixedNotify(u)
  \/ liveGet
  \/ \E v \in Values : liveUpdate(v)
  \/ \E v \in Values : liveSet(v)
  \/ \E u \in Updaters \cup {Self} : liveNotify(u)

(***************************************************************************)
(* PART 5. The Compartment constructor, evaluate, and the checks the       *)
(* module methods make on their argument and on the hooks before they      *)
(* operate the module system.                                              *)
(***************************************************************************)
\* typeof of a specifier that is not a string.
NonStrings == {"undefined", "number", "object"}

\* import and load are async methods: an exception thrown in their body
\* rejects the promise they return; module and importNow throw to the caller.
\* An async method that throws to its caller like a synchronous one.
Completion_allThrown(op) == "thrown"

Completion(op) == IF op \in {"import", "load"} THEN "rejected" ELSE "thrown"

\* The objects `this` can be: the compartments, and the objects whose
\* constructor has run, to completion or not.
Exists(o) == IF o \in Comps THEN TRUE ELSE constructorCall[o].state # "none"

\* throw new TypeError(...) of a method, before it operates the module system.
Fail(op, o, arg, check) ==
  /\ Idle
  /\ calls < MaxCalls
  /\ Exists(o)
  /\ calls' = calls + 1
  /\ apiResult' = [op |-> op, this |-> o, arg |-> arg, how |-> Completion(op),
                   error |-> "TypeError", check |-> check, seq |-> calls + 1]
  /\ UNCHANGED <<moduleRecords, hookCalls, deferredExports, proxyGen, moduleAliases,
                 active, instances, instGen, inst, stack, exc, call, returned, thrown,
                 moduleRet, disc>>
  /\ UNCHANGED <<privateFields, constructorCall, callerLexicals, lastEval, thirdParty>>
  /\ UNCHANGED <<bvars, lvars, gvars>>

\* The check a method fails for an argument: typeof specifier !== 'string'
\* comes first, then assertModuleHooks(this).
FailedCheck(o, arg) ==
  IF arg \in NonStrings THEN "typeof specifier"
  ELSE IF ~assertModuleHooks(o) THEN "assertModuleHooks"
  ELSE "none"

\* The calls of the four methods that end in one of the two checks.
moduleFails(o, arg) ==
  FailedCheck(o, arg) # "none" /\ Fail("module", o, arg, FailedCheck(o, arg))
importFails(o, arg) ==
  FailedCheck(o, arg) # "none" /\ Fail("import", o, arg, FailedCheck(o, arg))
loadFails(o, arg) ==
  FailedCheck(o, arg) # "none" /\ Fail("load", o, arg, FailedCheck(o, arg))
importNowFails(o, arg) ==
  FailedCheck(o, arg) # "none" /\ Fail("importNow", o, arg, FailedCheck(o, arg))

\* The values of a moduleMap: a string, an object that is no exports proxy,
\* the proxy A.module("y") returned before the model starts, and the proxy
\* A.module("leaf") returns, if it has been called.
StringEntry == <<"string", "./y", 0>>
PlainObject == <<"object", "object", 0>>
ModuleMaps ==
  {<<>>, <<<<"A", "y", 1>>>>, <<<<"A", "leaf", 1>>>>, <<StringEntry>>, <<PlainObject>>,
   <<StringEntry, PlainObject>>, <<PlainObject, StringEntry>>,
   <<<<"A", "y", 1>>, StringEntry>>, <<<<"A", "y", 1>>, PlainObject>>}

Lexicals(x, ab) == [n \in LexNames |-> IF n = "x" THEN x ELSE ab]

\* The arguments of the constructor calls of the host.
ConstructorArgs ==
  {[moduleMap |-> m, globalLexicals |-> Lexicals(Absent, Absent),
    importHook |-> FALSE, resolveHook |-> FALSE] : m \in ModuleMaps}
  \cup
  {[moduleMap |-> <<<<"A", "y", 1>>>>, globalLexicals |-> Lexicals(x, ab),
    importHook |-> FALSE, resolveHook |-> FALSE] : x \in {Absent, 1}, ab \in {Absent, 1}}
  \cup
  {[moduleMap |-> m, globalLexicals |-> Lexicals(1, 1),
    importHook |-> FALSE, resolveHook |-> FALSE] : m \in {<<StringEntry>>, <<PlainObject>>}}
  \cup
  {[moduleMap |-> <<>>, globalLexicals |-> Lexicals(1, Absent),
    importHook |-> i, resolveHook |-> ~i] : i \in BOOLEAN}

isValidIdentifierName(identifier) == identifier # "a-b"

\* A validation loop that rejects strings only.
RECURSIVE ValidateModuleMap_stringsOnly(_, _)
ValidateModuleMap_stringsOnly(h, moduleMapEntries) ==
  IF moduleMapEntries = <<>> THEN "none"
  ELSE IF Head(moduleMapEntries)[1] = "string" THEN "TypeError"
  ELSE ValidateModuleMap_stringsOnly(h, Tail(moduleMapEntries))

\* The error of the first moduleMap entry the validation loop rejects.
RECURSIVE ValidateModuleMap(_, _)
ValidateModuleMap(h, moduleMapEntries) ==
  IF moduleMapEntries = <<>> THEN "none"
  ELSE IF Head(moduleMapEntries)[1] = "string" THEN "TypeError"
  ELSE IF Head(moduleMapEntries) \notin DOMAIN h.moduleAliases THEN "ReferenceError"
  ELSE ValidateModuleMap(h, Tail(moduleMapEntries))

\* A constructor that does not look at the names of globalLexicals.
invalidNames_ignored(globalLexicalsOption) == {}

\* getOwnPropertyNames(globalLexicalsOption).filter(...)
invalidNames(globalLexicalsOption) ==
  {n \in LexNames : globalLexicalsOption[n] # Absent /\ ~isValidIdentifierName(n)}

\* freeze({ ...globalLexicalsOption })
Snapshot_notFrozen(globalLexicalsOption) ==
  [frozen |-> FALSE, props |-> globalLexicalsOption]

Snapshot(globalLexicalsOption) ==
  [frozen |-> TRUE, props |-> globalLexicalsOption]

\* new Compartment(endowments, moduleMap, options)
Compartment(o, args) ==
  /\ Idle
  /\ calls < MaxCalls
  /\ constructorCall[o].state = "none"
  /\ calls' = calls + 1
  /\ callerLexicals' = [callerLexicals EXCEPT ![o] = args.globalLexicals]
  /\ LET error ==
           IF ValidateModuleMap(Heap, args.moduleMap) # "none"
             THEN ValidateModuleMap(Heap, args.moduleMap)
           ELSE IF invalidNames(args.globalLexicals) # {} THEN "Error"
           ELSE "none"
     IN /\ constructorCall' = [constructorCall EXCEPT ![o] =
              [state |-> IF error = "none" THEN "returned" ELSE "thrown",
               error |-> error, args |-> args]]
        /\ privateFields' =
             IF error # "none" THEN privateFields
             ELSE [privateFields EXCEPT ![o] =
                     [registered |-> TRUE, importHook |-> args.importHook,
                      resolveHook |-> args.resolveHook,
                      globalLexicals |-> Snapshot(args.globalLexicals)]]
  /\ UNCHANGED <<moduleRecords, hookCalls, deferredExports, proxyGen, moduleAliases,
                 active, instances, instGen, inst, stack, exc, call, returned, thrown,
                 moduleRet, disc>>
  /\ UNCHANGED <<apiResult, lastEval, thirdParty, bvars, lvars, gvars>>

\* The caller changes the object it passed as the globalLexicals option.
callerAssign(o, n, v) ==
  /\ Idle
  /\ calls < MaxCalls
  /\ Exists(o)
  /\ callerLexicals[o][n] # v
  /\ calls' = calls + 1
  /\ callerLexicals' = [callerLexicals EXCEPT ![o][n] = v]
  /\ UNCHANGED <<moduleRecords, hookCalls, deferredExports, proxyGen, moduleAliases,
                 active, instances, instGen, inst, stack, exc, call, returned, thrown,
                 moduleRet, disc>>
  /\ UNCHANGED <<privateFields, constructorCall, apiResult, lastEval, thirdParty, bvars, lvars, gvars>>

\* The programs the host evaluates: one that reads the variable x, one that
\* assigns to it, and a source that is not a string.
Programs ==
  {[kind |-> "read", value |-> Absent]} \cup {[kind |-> "notString", value |-> Absent]}
  \cup {[kind |-> "assign", value |-> v] : v \in 1..MaxVal}

Completed(value) == [threw |-> "none", value |-> value]
Threw(error) == [threw |-> error, value |-> Absent]

\* Reflect.set on the scope object: a frozen object keeps its properties.
Assign(localObject, n, v) ==
  IF localObject.frozen THEN localObject
  ELSE [localObject EXCEPT !.props[n] = v]

\* compartment.evaluate(source, options), for a program in strict mode;
\* with __moduleShimLexicals__ the scope object is a new object that has the
\* property descriptors of globalLexicals.
evaluate(o, program, moduleShimLexicals) ==
  /\ Idle
  /\ calls < MaxCalls
  /\ Exists(o)
  /\ calls' = calls + 1
  /\ LET fields == privateFields[o]
         localObject == IF moduleShimLexicals
                          THEN [fields.globalLexicals EXCEPT !.frozen = FALSE]
                          ELSE fields.globalLexicals
         bound == fields.globalLexicals.props["x"] # Absent
         written == Assign(fields.globalLexicals, "x", program.value)
     IN /\ lastEval' =
             [this |-> o, program |-> program, seq |-> calls + 1,
              result |->
                IF program.kind = "notString" \/ ~fields.registered THEN Threw("TypeError")
                ELSE IF ~bound THEN Threw("ReferenceError")
                ELSE IF program.kind = "read" THEN Completed(localObject.props["x"])
                ELSE IF ~moduleShimLexicals /\ written # fields.globalLexicals
                  THEN Completed(program.value)
                ELSE Threw("TypeError")]
        /\ privateFields' =
             IF program.kind = "assign" /\ fields.registered /\ bound /\ ~moduleShimLexicals
               THEN [privateFields EXCEPT ![o].globalLexicals = written]
               ELSE privateFields
  /\ UNCHANGED <<moduleRecords, hookCalls, deferredExports, proxyGen, moduleAliases,
                 active, instances, instGen, inst, stack, exc, call, returned, thrown,
                 moduleRet, disc>>
  /\ UNCHANGED <<constructorCall, callerLexicals, apiResult, thirdParty, bvars, lvars, gvars>>

\* The specifiers the host passes to the module methods of a compartment.
ApiSpecs == {"leaf"}

\* The constructor, the caller's later changes and evaluate.
CNext ==
  \/ \E o \in Objs : \E args \in ConstructorArgs : Compartment(o, args)
  \/ \E o \in Comps \cup Objs : \E v \in (1..MaxVal) \cup {Absent} : callerAssign(o, "x", v)
  \/ \E o \in Comps \cup Objs : \E program \in Programs : \E m \in BOOLEAN :
       evaluate(o, program, m)
  \/ \E s \in ApiSpecs : module("A", s)

\* The module methods of the compartments, with and without hooks, and
\* evaluate.
ANext ==
  \/ \E c \in Comps : \E arg \in NonStrings \cup ApiSpecs : moduleFails(c, arg)
  \/ \E c \in Comps : \E arg \in NonStrings \cup ApiSpecs : importFails(c, arg)
  \/ \E c \in Comps : \E arg \in NonStrings \cup ApiSpecs : loadFails(c, arg)
  \/ \E c \in Comps : \E arg \in NonStrings \cup ApiSpecs : importNowFails(c, arg)
  \/ \E c \in Comps : \E s \in ApiSpecs : module(c, s)
  \/ \E c \in Comps : \E s \in ApiSpecs : load(c, s)
  \/ \E c \in Comps : \E program \in Programs : evaluate(c, program, FALSE)

(***************************************************************************)
(* PART 6. The constructor of a third-party module instance and the        *)
(* bindings it installs on proxiedExports, used by the code that holds     *)
(* proxiedExports and the notifiers.                                       *)
(***************************************************************************)
\* The values of `exports` the records of the host have.
ExportsValues ==
  {Array(<<<<"v", TRUE>>, <<"u", TRUE>>>>), Array(<<<<"w", TRUE>>>>), Array(<<>>),
   Array(<<<<"v", TRUE>>, <<"u", FALSE>>>>), Array(<<<<"v", FALSE>>>>),
   Value("number", TRUE), Value("number", FALSE), Value("string", TRUE),
   Value("string", FALSE), Value("object", TRUE), Value("null", FALSE),
   Value("boolean", FALSE), Value("undefined", FALSE)}

\* The linker constructs the instance of B's tp from a third-party record
\* with the given `exports`; each declared name gets a binding whose value
\* is proxiedExports[name], undefined, and no updaters.
instantiate(c, s, staticModuleRecord) ==
  /\ Idle
  /\ thirdParty.outcome = "none"
  /\ instances[c][s] = NoInst
  /\ LET record == [compartment |-> c, moduleSpecifier |-> s, resolvedImports |-> <<>>]
         h == makeThirdPartyModuleInstance(Heap, record, staticModuleRecord)
         id == IF h.exc = NoErr THEN Newest(h, c, s) ELSE NoInst
         names == IF h.exc = NoErr THEN h.inst[id].setters ELSE {}
     IN /\ SetHeap([h EXCEPT !.exc = NoErr])
        /\ thirdParty' =
             [exports |-> staticModuleRecord.exports,
              outcome |-> IF h.exc = NoErr THEN "returned" ELSE h.exc[1],
              instance |-> id,
              bindings |-> [name \in names |-> [value |-> Undefined, updaters |-> <<>>]],
              recv |-> [name \in names |-> [u \in Updaters |-> Never]],
              got |-> Never,
              wrote |-> <<"none", Never>>]
  /\ UNCHANGED <<moduleRet, calls, bvars, lvars, gvars>>
  /\ UNCHANGED <<privateFields, constructorCall, callerLexicals, lastEval, apiResult>>

\* A set that stores the value and calls no updater.
thirdPartySet_noFanOut(name, newValue) ==
  /\ calls < MaxCalls
  /\ name \in DOMAIN thirdParty.bindings
  /\ calls' = calls + 1
  /\ thirdParty' = [thirdParty EXCEPT !.bindings[name].value = newValue,
                                      !.wrote = <<name, newValue>>]
  /\ UNCHANGED <<moduleRecords, hookCalls, deferredExports, proxyGen, moduleAliases,
                 active, instances, instGen, inst, stack, exc, call, returned, thrown,
                 moduleRet, disc>>
  /\ UNCHANGED <<privateFields, constructorCall, callerLexicals, lastEval, apiResult>>
  /\ UNCHANGED <<bvars, lvars, gvars>>

\* proxiedExports[name] = newValue: the setter stores the value and calls
\* every updater with it.
thirdPartySet(name, newValue) ==
  /\ calls < MaxCalls
  /\ name \in DOMAIN thirdParty.bindings
  /\ calls' = calls + 1
  /\ thirdParty' = [thirdParty EXCEPT
       !.bindings[name].value = newValue,
       !.wrote = <<name, newValue>>,
       !.recv[name] = Deliver(@, thirdParty.bindings[name].updaters, newValue)]
  /\ UNCHANGED <<moduleRecords, hookCalls, deferredExports, proxyGen, moduleAliases,
                 active, instances, instGen, inst, stack, exc, call, returned, thrown,
                 moduleRet, disc>>
  /\ UNCHANGED <<privateFields, constructorCall, callerLexicals, lastEval, apiResult>>
  /\ UNCHANGED <<bvars, lvars, gvars>>

\* notifiers[name](update): the updater is added and called with the value.
thirdPartyNotify(name, update) ==
  /\ calls < MaxCalls
  /\ name \in DOMAIN thirdParty.bindings
  /\ calls' = calls + 1
  /\ thirdParty' = [thirdParty EXCEPT
       !.bindings[name].updaters = Append(@, update),
       !.recv[name][update] = thirdParty.bindings[name].value]
  /\ UNCHANGED <<moduleRecords, hookCalls, deferredExports, proxyGen, moduleAliases,
                 active, instances, instGen, inst, stack, exc, call, returned, thrown,
                 moduleRet, disc>>
  /\ UNCHANGED <<privateFields, constructorCall, callerLexicals, lastEval, apiResult>>
  /\ UNCHANGED <<bvars, lvars, gvars>>

\* proxiedExports[name]: the getter returns the value.
thirdPartyGet(name) ==
  /\ calls < MaxCalls
  /\ name \in DOMAIN thirdParty.bindings
  /\ calls' = calls + 1
  /\ thirdParty' = [thirdParty EXCEPT !.got = thirdParty.bindings[name].value]
  /\ UNCHANGED <<moduleRecords, hookCalls, deferredExports, proxyGen, moduleAliases,
                 active, instances, instGen, inst, stack, exc, call, returned, thrown,
                 moduleRet, disc>>
  /\ UNCHANGED <<privateFields, constructorCall, callerLexicals, lastEval, apiResult>>
  /\ UNCHANGED <<bvars, lvars, gvars>>

TNext ==
  \/ \E e \in ExportsValues : instantiate("B", "tp", [exports |-> e])
  \/ \E name \in Names : \E v \in Values : thirdPartySet(name, v)
  \/ \E name \in Names : \E u \in Updaters : thirdPartyNotify(name, u)
  \/ \E name \in Names : thirdPartyGet(name)

(***************************************************************************)
(* Specifications.                                                         *)
(***************************************************************************)
\* importNow in its two statements.  The first, link(...), leaves the call
\* pending with nothing on the stack; the second is execute() of the root.
importNowLink(c, s) ==
  /\ Idle
  /\ call = NoCall
  /\ assertModuleHooks(c)
  /\ calls < MaxCalls
  /\ moduleRecords[c][s].compartment # "none"
  /\ calls' = calls + 1
  /\ SetHeap([link(Heap, c, s) EXCEPT !.call = <<c, s>>])
  /\ UNCHANGED <<moduleRet, bvars, cvars, gvars, lvars>>

importNowExecute ==
  /\ Idle
  /\ call # NoCall
  /\ SetHeap(callExecute(Heap, instances[call[1]][call[2]]))
  /\ UNCHANGED <<moduleRet, calls, bvars, cvars, gvars, lvars>>

\* load called by the host, which runs between calls only.
hostLoad(c, s) == call = NoCall /\ load(c, s)

\* The specifiers the host links: the diamond, the cycle, the alias.
LinkRoots(c) == IF c = "B" THEN {"main", "p", "x"} ELSE {}

LinkNext ==
  \/ \E c \in Comps : \E s \in LinkRoots(c) : hostLoad(c, s)
  \/ \E c \in Comps : \E s \in LinkRoots(c) : importNowLink(c, s)
  \/ importNowExecute
  \/ importsStep
  \/ importsEnd
  \/ bodyReturn
  \/ bodyThrow
  \/ \E i \in {"q"} : thirdPartyImportNow(i)
  \/ thirdPartyReturn
  \/ thirdPartyThrow
  \/ executeCatch
  \/ thirdPartyUnwind
  \/ importNowThrow

(***************************************************************************)
(* PART 7. The evaluator that makeEvaluate returns: the guard around the   *)
(* one use of the unsafe evaluator.                                        *)
(***************************************************************************)
MaxEvaluations == 3

\* What the evaluated source does: it returns a value or it throws.
SourceOutcomes == {"returned", "threw"}

NoEvaluation == [state |-> "none", source |-> "none"]

\* The evaluator is called: the transforms are applied to the source, then
\* the flag is set, then the source is evaluated.  A transform that throws
\* ends the call before the flag is set.
evaluateCall(transformsThrow) ==
  /\ evaluation.state = "none"
  /\ Len(evaluations) < MaxEvaluations
  /\ IF transformsThrow
       THEN /\ evaluations' = Append(evaluations, <<"not evaluated", "transform error">>)
            /\ UNCHANGED <<scopeHandler, evaluation>>
       ELSE /\ scopeHandler' = [useUnsafeEvaluator |-> TRUE]
            /\ evaluation' = [state |-> "evaluating", source |-> "running"]
            /\ UNCHANGED evaluations
  /\ UNCHANGED scopeProxy
  /\ UNCHANGED <<bvars, evars, lvars, cvars, wvars, pvars>>

\* The first access of the evaluated code to the scope proxy: the handler
\* switches the flag off.  A revoked proxy throws before its handler runs.
scopeHandlerGet ==
  /\ evaluation.state = "evaluating"
  /\ evaluation.source = "running"
  /\ ~scopeProxy.revoked
  /\ scopeHandler.useUnsafeEvaluator
  /\ scopeHandler' = [useUnsafeEvaluator |-> FALSE]
  /\ UNCHANGED <<scopeProxy, evaluation, evaluations>>
  /\ UNCHANGED <<bvars, evars, lvars, cvars, wvars, pvars>>

\* apply(evaluate, globalObject, [source]) ends: the source has returned or
\* thrown.  With the proxy revoked the lookup of `eval` throws.
evaluateApply(outcome) ==
  /\ evaluation.state = "evaluating"
  /\ evaluation.source = "running"
  /\ scopeProxy.revoked => outcome = "threw"
  /\ evaluation' = [evaluation EXCEPT !.source = outcome]
  /\ UNCHANGED <<scopeHandler, scopeProxy, evaluations>>
  /\ UNCHANGED <<bvars, evars, lvars, cvars, wvars, pvars>>

\* The finally clause that lets the completion of the source through
\* whatever the flag is.
evaluateFinally_unguarded ==
  /\ evaluation.state = "evaluating"
  /\ evaluation.source \in SourceOutcomes
  /\ evaluations' = Append(evaluations, <<evaluation.source, evaluation.source>>)
  /\ evaluation' = NoEvaluation
  /\ UNCHANGED <<scopeHandler, scopeProxy>>
  /\ UNCHANGED <<bvars, evars, lvars, cvars, wvars, pvars>>

\* The finally clause: with the flag still on, the scope proxy is revoked and
\* assert.fail replaces the completion of the source; otherwise the call
\* completes as the source did.
evaluateFinally ==
  /\ evaluation.state = "evaluating"
  /\ evaluation.source \in SourceOutcomes
  /\ IF scopeHandler.useUnsafeEvaluator
       THEN /\ scopeProxy' = [revoked |-> TRUE]
            /\ evaluations' = Append(evaluations, <<evaluation.source, "assertion error">>)
       ELSE /\ evaluations' = Append(evaluations, <<evaluation.source, evaluation.source>>)
            /\ UNCHANGED scopeProxy
  /\ evaluation' = NoEvaluation
  /\ UNCHANGED scopeHandler
  /\ UNCHANGED <<bvars, evars, lvars, cvars, wvars, pvars>>

GNext ==
  \/ \E transformsThrow \in BOOLEAN : evaluateCall(transformsThrow)
  \/ scopeHandlerGet
  \/ \E outcome \in SourceOutcomes : evaluateApply(outcome)
  \/ evaluateFinally

GInit ==
  /\ scopeHandler = [useUnsafeEvaluator |-> FALSE]
  /\ scopeProxy = [revoked |-> FALSE]
  /\ evaluation = NoEvaluation
  /\ evaluations = <<>>

(***************************************************************************)
(* PART 8. AltWeakMap: a weak map kept in a private field that the         *)
(* constructor of a hidden class installs on the key itself.               *)
(***************************************************************************)
\* Two AltWeakMap instances, each with a HiddenClass of its own.
AltWeakMaps == {"m1", "m2"}
\* The keys of the calls: two objects and a primitive.
KeyObjects == {"o1", "o2"}
Keys == KeyObjects \cup {"primitive"}
\* The frozen object that marks a deleted entry; it never escapes.
PUMPKIN == -3
\* The values stored: undefined among them.
Stored == Values \cup {Undefined}

\* The completion of a method call.
Returned(type, value) == [threw |-> "none", type |-> type, value |-> value]
Boolean(b) == Returned("boolean", IF b THEN 1 ELSE 0)
TypeError == [threw |-> "TypeError", type |-> "none", value |-> Absent]

\* key.#value of the HiddenClass of map m: Absent where the object has no
\* such field (the access throws), as for every primitive.
Field(m, key) == IF key \in KeyObjects THEN hiddenValue[m][key] ELSE Absent

\* The entry of the WeakMap beside m for a key, Absent if it has none.
Entry(m, key) == IF key \in KeyObjects THEN weakMap[m][key] ELSE Absent

Call(method, m, key, result, expected) ==
  [method |-> method, map |-> m, key |-> key, result |-> result, expected |-> expected]

\* has(key) that answers true for every key that has the field.
altHas_anyField(m, key) ==
  /\ lastCall' = Call("has", m, key, Boolean(Field(m, key) # Absent),
                      Boolean(Entry(m, key) # Absent))
  /\ UNCHANGED <<hiddenValue, weakMap>>
  /\ UNCHANGED <<bvars, evars, lvars, cvars>>
  /\ UNCHANGED <<scopeHandler, scopeProxy, evaluation, evaluations, pvars>>

\* has(key): key.#value !== PUMPKIN, false if the access throws.
altHas(m, key) ==
  /\ lastCall' = Call("has", m, key,
                      Boolean(IF Field(m, key) = Absent THEN FALSE
                              ELSE Field(m, key) # PUMPKIN),
                      Boolean(Entry(m, key) # Absent))
  /\ UNCHANGED <<hiddenValue, weakMap>>
  /\ UNCHANGED <<bvars, evars, lvars, cvars>>
  /\ UNCHANGED <<scopeHandler, scopeProxy, evaluation, evaluations, pvars>>

\* get(key): undefined for PUMPKIN and if the access throws.
altGet(m, key) ==
  /\ lastCall' = Call("get", m, key,
                      Returned("value", IF Field(m, key) \in {Absent, PUMPKIN} THEN Undefined
                                        ELSE Field(m, key)),
                      Returned("value", IF Entry(m, key) = Absent THEN Undefined
                                        ELSE Entry(m, key)))
  /\ UNCHANGED <<hiddenValue, weakMap>>
  /\ UNCHANGED <<bvars, evars, lvars, cvars>>
  /\ UNCHANGED <<scopeHandler, scopeProxy, evaluation, evaluations, pvars>>

\* set(key, value): the field is assigned; if the key has none, the
\* HiddenClass constructor refuses a key that is no object and installs the
\* field on any other.  WeakMap.prototype.set throws for a key that is no
\* object.
altSet(m, key, value) ==
  /\ IF key \in KeyObjects
       THEN /\ hiddenValue' = [hiddenValue EXCEPT ![m][key] = value]
            /\ weakMap' = [weakMap EXCEPT ![m][key] = value]
            /\ lastCall' = Call("set", m, key, Returned("this", Undefined),
                                Returned("this", Undefined))
       ELSE /\ lastCall' = Call("set", m, key, TypeError, TypeError)
            /\ UNCHANGED <<hiddenValue, weakMap>>
  /\ UNCHANGED <<bvars, evars, lvars, cvars>>
  /\ UNCHANGED <<scopeHandler, scopeProxy, evaluation, evaluations, pvars>>

\* delete(key): false for PUMPKIN and if the access throws; otherwise the
\* field is set to PUMPKIN.
altDelete(m, key) ==
  /\ IF Field(m, key) \in {Absent, PUMPKIN}
       THEN /\ UNCHANGED hiddenValue
            /\ lastCall' = Call("delete", m, key, Boolean(FALSE),
                                Boolean(Entry(m, key) # Absent))
       ELSE /\ hiddenValue' = [hiddenValue EXCEPT ![m][key] = PUMPKIN]
            /\ lastCall' = Call("delete", m, key, Boolean(TRUE),
                                Boolean(Entry(m, key) # Absent))
  /\ weakMap' = IF key \in KeyObjects THEN [weakMap EXCEPT ![m][key] = Absent] ELSE weakMap
  /\ UNCHANGED <<bvars, evars, lvars, cvars>>
  /\ UNCHANGED <<scopeHandler, scopeProxy, evaluation, evaluations, pvars>>

WNext ==
  \/ \E m \in AltWeakMaps, key \in Keys : altHas(m, key)
  \/ \E m \in AltWeakMaps, key \in Keys : altGet(m, key)
  \/ \E m \in AltWeakMaps, key \in Keys : \E value \in Stored : altSet(m, key, value)
  \/ \E m \in AltWeakMaps, key \in Keys : altDelete(m, key)

(***************************************************************************)
(* PART 9. graphPackages: the package graph gathered by the mutually       *)
(* recursive asynchronous functions graphPackage and gatherDependency.     *)
(***************************************************************************)
\* The package locations, the application among them, and a dependency name
\* for which findPackage finds no package.
Packages == {"app", "a", "b", "c"}
DependencyNames == Packages \cup {"ghost"}

Descriptor(dependencies, type) == [dependencies |-> dependencies, type |-> type]
NoDescriptors == [p \in Packages |-> Descriptor({}, "undefined")]

\* The dependency graphs of the calls: a diamond, a cycle through the
\* application, a diamond over a cycle with a package that depends on
\* itself, a dependency that cannot be found, a package whose type has no
\* parser map.
PackageGraphs ==
  {[NoDescriptors EXCEPT !["app"] = Descriptor({"a", "b"}, "module"),
                         !["a"] = Descriptor({"c"}, "commonjs"),
                         !["b"] = Descriptor({"c"}, "module"),
                         !["c"] = Descriptor({}, "module")],
   [NoDescriptors EXCEPT !["app"] = Descriptor({"a"}, "module"),
                         !["a"] = Descriptor({"b"}, "module"),
                         !["b"] = Descriptor({"app"}, "undefined")],
   [NoDescriptors EXCEPT !["app"] = Descriptor({"a", "b"}, "module"),
                         !["a"] = Descriptor({"b", "c"}, "module"),
                         !["b"] = Descriptor({"a", "c"}, "module"),
                         !["c"] = Descriptor({"c"}, "module")],
   [NoDescriptors EXCEPT !["app"] = Descriptor({"a", "b"}, "module"),
                         !["a"] = Descriptor({"ghost"}, "module"),
                         !["b"] = Descriptor({"c"}, "module"),
                         !["c"] = Descriptor({}, "module")],
   [NoDescriptors EXCEPT !["app"] = Descriptor({"a", "b"}, "module"),
                         !["a"] = Descriptor({"c"}, "module"),
                         !["b"] = Descriptor({"c"}, "module"),
                         !["c"] = Descriptor({"a"}, "wasm")]}

NoEntry ==
  [result |-> FALSE, label |-> FALSE, dependencies |-> <<>>, exports |-> FALSE,
   parsers |-> FALSE, gathered |-> 0]

\* inferParsers has a parser map for a descriptor without a type and for the
\* types module and commonjs, and throws for any other type.
inferParsers(type) ==
  IF type \in {"undefined", "module", "commonjs"} THEN "parsers" ELSE "throws"

\* graphPackage that makes a new entry for a location that has one.
graphPackage_again(d, g, t, packageLocation) ==
  [graph |-> [g EXCEPT ![packageLocation] =
                [result |-> TRUE, label |-> TRUE, dependencies |-> <<>>,
                 exports |-> TRUE,
                 parsers |-> inferParsers(d[packageLocation].type) = "parsers",
                 gathered |-> @.gathered + 1]],
   gather |-> [x \in DOMAIN t |->
                 IF x[1] = packageLocation /\ x[2] \in d[packageLocation].dependencies
                   THEN "finding" ELSE t[x]],
   promise |-> IF inferParsers(d[packageLocation].type) = "throws"
                 THEN "rejected" ELSE "children"]

\* graphPackage, all of whose body runs without a pause: a location that has
\* an entry returns at once; otherwise the entry is put into the graph,
\* gatherDependency is called for each dependency name (each runs up to its
\* first await), the entry is filled in, and the promise returned is that of
\* all the children, or a rejected one if inferParsers threw.
graphPackage(d, g, t, packageLocation) ==
  IF g[packageLocation].result
    THEN [graph |-> g, gather |-> t, promise |-> "undefined"]
    ELSE [graph |-> [g EXCEPT ![packageLocation] =
                       [result |-> TRUE, label |-> TRUE, dependencies |-> <<>>,
                        exports |-> TRUE,
                        parsers |-> inferParsers(d[packageLocation].type) = "parsers",
                        gathered |-> @.gathered + 1]],
          gather |-> [x \in DOMAIN t |->
                        IF x[1] = packageLocation /\ x[2] \in d[packageLocation].dependencies
                          THEN "finding" ELSE t[x]],
          promise |-> IF inferParsers(d[packageLocation].type) = "throws"
                        THEN "rejected" ELSE "children"]

\* Promise.all(children) of the graphPackage call that made the entry of a
\* location: rejected as soon as one child is, fulfilled when all are.
Children(packageLocation) ==
  {<<packageLocation, name>> : name \in descriptors[packageLocation].dependencies}
PromiseAll(packageLocation) ==
  IF \E x \in Children(packageLocation) : gather[x] = "rejected" THEN "rejected"
  ELSE IF \A x \in Children(packageLocation) : gather[x] = "resolved" THEN "resolved"
  ELSE "pending"

\* graphPackages, up to its await of graphPackage for the application.
graphPackages(packageDescriptors) ==
  /\ graphPromise = "none"
  /\ descriptors' = packageDescriptors
  /\ LET r == graphPackage(packageDescriptors, graph, gather, "app") IN
       /\ graph' = r.graph
       /\ gather' = r.gather
       /\ graphPromise' = IF r.promise = "rejected" THEN "rejected" ELSE "pending"
  /\ UNCHANGED <<bvars, evars, lvars, cvars, wvars>>
  /\ UNCHANGED <<scopeHandler, scopeProxy, evaluation, evaluations>>

\* gatherDependency after its await of findPackage: no package found throws;
\* otherwise the location is pushed onto the dependencies of the dependent
\* and graphPackage is called for it.
gatherDependency(packageLocation, name) ==
  /\ gather[<<packageLocation, name>>] = "finding"
  /\ IF name \notin Packages
       THEN /\ gather' = [gather EXCEPT ![<<packageLocation, name>>] = "rejected"]
            /\ UNCHANGED graph
       ELSE LET pushed == [graph EXCEPT ![packageLocation].dependencies = Append(@, name)]
                r == graphPackage(descriptors, pushed, gather, name)
            IN /\ graph' = r.graph
               /\ gather' = [r.gather EXCEPT ![<<packageLocation, name>>] =
                               CASE r.promise = "undefined" -> "resolved"
                                 [] r.promise = "rejected"  -> "rejected"
                                 [] OTHER                   -> "awaiting"]
  /\ UNCHANGED <<descriptors, graphPromise>>
  /\ UNCHANGED <<bvars, evars, lvars, cvars, wvars>>
  /\ UNCHANGED <<scopeHandler, scopeProxy, evaluation, evaluations>>

\* gatherDependency after its await of graphPackage: the promise of the
\* children has settled.
gatherDependencySettles(packageLocation, name) ==
  /\ gather[<<packageLocation, name>>] = "awaiting"
  /\ PromiseAll(name) # "pending"
  /\ gather' = [gather EXCEPT ![<<packageLocation, name>>] = PromiseAll(name)]
  /\ UNCHANGED <<descriptors, graph, graphPromise>>
  /\ UNCHANGED <<bvars, evars, lvars, cvars, wvars>>
  /\ UNCHANGED <<scopeHandler, scopeProxy, evaluation, evaluations>>

\* graphPackages after its await of graphPackage: it returns the graph, or
\* the rejection goes through.
graphPackagesSettles ==
  /\ graphPromise = "pending"
  /\ PromiseAll("app") # "pending"
  /\ graphPromise' = PromiseAll("app")
  /\ UNCHANGED <<descriptors, graph, gather>>
  /\ UNCHANGED <<bvars, evars, lvars, cvars, wvars>>
  /\ UNCHANGED <<scopeHandler, scopeProxy, evaluation, evaluations>>

\* The steps the event loop takes once graphPackages has been called.
PProgress ==
  \/ \E p \in Packages, name \in DependencyNames : gatherDependency(p, name)
  \/ \E p \in Packages, name \in DependencyNames : gatherDependencySettles(p, name)
  \/ graphPackagesSettles

PNext ==
  \/ \E packageDescriptors \in PackageGraphs : graphPackages(packageDescriptors)
  \/ PProgress

PInit ==
  /\ descriptors = NoDescriptors
  /\ graph = [p \in Packages |-> NoEntry]
  /\ gather = [x \in Packages \X DependencyNames |-> "none"]
  /\ graphPromise = "none"

WInit ==
  /\ hiddenValue = [m \in AltWeakMaps |-> [key \in KeyObjects |-> Absent]]
  /\ weakMap = [m \in AltWeakMaps |-> [key \in KeyObjects |-> Absent]]
  /\ lastCall = Call("none", "none", "none", Returned("none", Undefined),
                     Returned("none", Undefined))

CInit ==
  /\ privateFields =
       [o \in Comps \cup Objs |->
          IF o \in Objs THEN NoFields
          ELSE [registered |-> TRUE, importHook |-> o # "N", resolveHook |-> o # "N",
                globalLexicals |-> Snapshot(Lexicals(1, Absent))]]
  /\ constructorCall = [o \in Objs |-> [state |-> "none", error |-> "none", args |-> "none"]]
  /\ callerLexicals = [o \in Comps \cup Objs |->
                         IF o \in Objs THEN Lexicals(Absent, Absent) ELSE Lexicals(1, Absent)]
  /\ lastEval = [this |-> "none", program |-> [kind |-> "none", value |-> Absent], seq |-> 0,
                 result |-> Threw("none")]
  /\ apiResult = [op |-> "none", this |-> "none", arg |-> "none", how |-> "none",
                  error |-> "none", check |-> "none", seq |-> 0]
  /\ thirdParty =
       [exports |-> Value("none", FALSE), outcome |-> "none", instance |-> NoInst,
        bindings |-> <<>>, recv |-> <<>>, got |-> Never, wrote |-> <<"none", Never>>]

LInit ==
  /\ settle = [c \in Comps |-> [s \in AllSpecs |-> [state |-> "none", error |-> NoErr]]]
  /\ loadCalls = [c \in Comps |-> [s \in AllSpecs |-> 0]]
  /\ importing = [c \in Comps |-> [s \in AllSpecs |-> [state |-> "none", error |-> NoErr]]]

Init == BInit /\ EInit /\ LInit /\ CInit /\ GInit /\ WInit /\ PInit

\* The binding records under any interleaving of their operations.
SpecBind == Init /\ [][BNext]_vars

\* Compartments whose host loads, links and executes modules.
SpecExec == Init /\ [][ENext]_vars

\* The loader under any interleaving of load calls and import hook settlements.
SpecLoad == Init /\ [][LNext]_vars

\* import() under any interleaving of calls and import hook settlements;
\* every hook call settles and synchronous code runs to completion.
SpecImport == Init /\ [][INext]_vars /\ WF_vars(IProgress)

\* Modules with import names, `export *` and namespace reads.
SpecNames == Init /\ [][NNext]_vars

\* load() and import() under any interleaving of calls and settlements.
SpecLoadImport == Init /\ [][LINext]_vars

\* Constructor calls of the host, its later changes of the globalLexicals
\* object it passed, and evaluate.
SpecCompartment == Init /\ [][CNext]_vars

\* The module methods and evaluate on compartments with and without hooks.
SpecApi == Init /\ [][ANext]_vars

\* The construction of a third-party instance and the use of its bindings.
SpecThirdParty == Init /\ [][TNext]_vars

\* importNow as link followed by execute, on records that load stored.
SpecLink == Init /\ [][LinkNext]_vars

\* Calls of one evaluator, one after the other.
SpecEvaluate == Init /\ [][GNext]_vars

\* Any sequence of method calls on the AltWeakMap instances.
SpecAltWeakMap == Init /\ [][WNext]_vars

\* One call of graphPackages; the event loop runs every continuation that
\* is ready.
SpecGraph == Init /\ [][PNext]_vars /\ WF_vars(PProgress)

(***************************************************************************)
(* Claims.                                                                 *)
(***************************************************************************)
Tdz(b) == IF b = "fixed" THEN fixedB.tdz ELSE liveB.tdz
ValueOf(b) == IF b = "fixed" THEN fixedB.value ELSE liveB.value

\* C4 (state part): while a binding is in TDZ no subscribed updater has been
\* invoked; once it has left TDZ, the last value delivered to every subscribed
\* updater is the binding's current value.
C4_Consistent ==
  \A b \in Bindings : \A u \in notified[b] :
    IF Tdz(b) THEN recv[b][u] = Never ELSE recv[b][u] = ValueOf(b)

\* C4 (step part): a notify during TDZ invokes nothing, and a notify after TDZ
\* invokes exactly the given updater, immediately, with the current value.
C4_NotifyStep ==
  (lastOp'.op = "notify" /\ lastOp'.u # Self) =>
     IF Tdz(lastOp'.b) THEN lastFan' = <<>>
     ELSE lastFan' = <<<<lastOp'.u, ValueOf(lastOp'.b)>>>>

\* C4: live-binding consistency: after any interleaving of notify, init, update
\* and set, once the binding has left TDZ every subscribed updater last received
\* the binding's current value; an updater subscribed during TDZ receives nothing
\* until initialization, one subscribed after TDZ is invoked immediately with the
\* current value.
C4_LiveBindingConsistency == [](C4_Consistent) /\ [][C4_NotifyStep]_bvars

\* C4 witness: updaters subscribed to both bindings, one during TDZ and one after,
\* and the live binding has been written again after they subscribed.
C4_Witness ==
  /\ notified["live"] = Updaters /\ notified["fixed"] = Updaters
  /\ ~liveB.tdz /\ ~fixedB.tdz
  /\ fixedB.value = 1 /\ liveB.value = 2
  /\ lastOp.op = "set"
  /\ Len(lastFan) = 2

\* C5: while tdz is true, get (fixed, live) and set (live) raise a ReferenceError
\* and leave the binding unchanged; tdz is cleared only by init (fixed) or update
\* (live), never by set or notify; once cleared it never becomes true again.
C5_TdzStep ==
  /\ (~fixedB.tdz => ~fixedB'.tdz)
  /\ (~liveB.tdz => ~liveB'.tdz)
  /\ (fixedB.tdz /\ ~fixedB'.tdz => lastOp'.b = "fixed" /\ lastOp'.op = "init")
  /\ (liveB.tdz /\ ~liveB'.tdz => lastOp'.b = "live" /\ lastOp'.op = "update")
  /\ (lastOp'.op \in {"get", "set"} /\ Tdz(lastOp'.b) =>
        /\ lastOp'.res = "ReferenceError"
        /\ UNCHANGED <<fixedB, liveB, recv>>
        /\ lastFan' = <<>>)
  /\ (lastOp'.op \in {"get", "set"} /\ ~Tdz(lastOp'.b) => lastOp'.res = "ok")

C5_TdzInvariant == [][C5_TdzStep]_bvars

\* C5 witness: a set on the live binding was refused in TDZ while updaters were
\* queued, after the fixed binding had been initialized.
C5_Witness ==
  /\ lastOp.b = "live" /\ lastOp.op = "set" /\ lastOp.res = "ReferenceError"
  /\ liveB.tdz /\ liveB.updaters # <<>>
  /\ ~fixedB.tdz

(***************************************************************************)
(* Claims about module instances and compartments.                         *)
(***************************************************************************)
Insts == DOMAIN inst
Parsed == {i \in Insts : inst[i].kind = "parsed"}
ThirdParty == {i \in Insts : inst[i].kind = "thirdParty"}
Results(i, kind) == {o[2] : o \in {x \in inst[i].outcomes : x[1] = kind}}
IsErr(r) == r[1] \in {"err", "internal"}

\* C1: over any sequence of execute() calls, re-entrant ones included, the
\* functor of a parsed instance and the supplied execute of a third-party
\* instance are invoked at most once.
C1_FunctorAtMostOnce == \A i \in Insts : inst[i].runs <= 1

\* C1 witness: a parsed and a third-party instance were each re-entered while
\* running, the parsed one was called again afterwards, and both ran once.
C1_Witness ==
  /\ Idle
  /\ \E i \in Parsed :
       /\ Results(i, "reentrant") # {} /\ Results(i, "later") # {}
       /\ inst[i].runs = 1
  /\ \E j \in ThirdParty : Results(j, "reentrant") # {} /\ inst[j].runs = 1

\* C2: if the functor of a parsed instance threw e on the first execute(),
\* every later execute() throws the same e and the functor does not run again;
\* if the functor returned normally, no later execute() throws.
C2_StickyParsed ==
  \A i \in Parsed :
    /\ \A r \in Results(i, "run") : Results(i, "later") \subseteq {r}
    /\ (inst[i].didThrow => inst[i].runs = 1)

\* C2 witness: a parsed instance whose functor threw was executed again later,
\* and another one whose functor returned was executed again later.
C2_Witness ==
  /\ \E i \in Parsed : \E e \in Results(i, "run") :
       IsErr(e) /\ e \in Results(i, "later") /\ inst[i].thrownError = e
  /\ \E i \in Parsed : Ok \in Results(i, "run") /\ Ok \in Results(i, "later")

\* C3: if the supplied execute of a third-party instance throws, every later
\* execute() call on the instance fails with that error as well.
C3_StickyThirdParty ==
  \A i \in ThirdParty :
    \A r \in Results(i, "run") : Results(i, "later") \subseteq {r}

\* C3 (the part the code keeps): execute() of a third-party instance
\* activates the deferred exports before it calls the supplied execute.
C3_ActivatesFirst ==
  \A i \in ThirdParty : inst[i].runs > 0 => inst[i].exportsProxy \in active

\* The (compartment, specifier) pairs whose record is the module's own, and
\* those whose record belongs to another module (aliases).
Loaded(c, s) == moduleRecords[c][s].compartment # "none"
Own(c, s) ==
  /\ Loaded(c, s)
  /\ moduleRecords[c][s].compartment = c
  /\ moduleRecords[c][s].moduleSpecifier = s
Aliased(c, s) == Loaded(c, s) /\ ~Own(c, s)

\* C6: in one compartment, two modules that import the same full specifier S
\* are linked to the same instance of S, S's functor runs once, and both
\* observe the same exported value.
C6_Diamond ==
  \A a \in Insts, b \in Insts :
    \A ia \in DOMAIN inst[a].importedInstances, ib \in DOMAIN inst[b].importedInstances :
      (a[1] = b[1] /\ resolveHook(ia, a[2]) = resolveHook(ib, b[2])) =>
        /\ inst[a].importedInstances[ia] = inst[b].importedInstances[ib]
        /\ inst[inst[a].importedInstances[ia]].runs <= 1
        /\ (ia \in DOMAIN inst[a].seen /\ ib \in DOMAIN inst[b].seen
              => inst[a].seen[ia] = inst[b].seen[ib])

\* C6 witness: main was imported; left and right each hold the value that the
\* one run of leaf exported.
C6_Witness ==
  /\ returned["B"]["main"] # {}
  /\ <<"B", "left", 1>> \in Insts /\ <<"B", "right", 1>> \in Insts
  /\ "./leaf" \in DOMAIN inst[<<"B", "left", 1>>].seen
  /\ "leaf" \in DOMAIN inst[<<"B", "right", 1>>].seen
  /\ inst[<<"B", "left", 1>>].seen["./leaf"] = Val(<<"B", "leaf", 1>>, 1)
  /\ inst[<<"B", "right", 1>>].seen["leaf"] = Val(<<"B", "leaf", 1>>, 1)
  /\ inst[<<"B", "leaf", 1>>].runs = 1

\* C7 as stated: every importNow(S) returns the same namespace, the one that
\* module(S) returns.
C7_ImportNowIsModule ==
  \A c \in Comps, s \in AllSpecs :
    Cardinality(returned[c][s] \cup moduleRet[c][s]) <= 1

\* C7 as amended: every importNow(S) returns the same namespace and every
\* module(S) returns the same namespace; the two are the same object when the
\* record of S is C's own, and when S is an alias importNow(S) returns the
\* exports proxy of the target compartment for the target specifier.
C7_SameNamespace ==
  \A c \in Comps, s \in AllSpecs :
    /\ Cardinality(returned[c][s]) <= 1
    /\ Cardinality(moduleRet[c][s]) <= 1
    /\ Own(c, s) => Cardinality(returned[c][s] \cup moduleRet[c][s]) <= 1
    /\ Aliased(c, s) =>
         returned[c][s] \subseteq
           {deferredExports[moduleRecords[c][s].compartment][moduleRecords[c][s].moduleSpecifier]}

\* C7 witness: importNow(y) in A returned the namespace that A.module(y) had
\* returned before y was loaded, and both importNow(x) and module(x) have
\* returned in B, where x is an alias.
C7_Witness ==
  /\ Own("A", "y") /\ returned["A"]["y"] # {} /\ returned["A"]["y"] = moduleRet["A"]["y"]
  /\ Aliased("B", "x") /\ returned["B"]["x"] # {} /\ moduleRet["B"]["x"] # {}

\* C8: an alias X of compartment B for A.module(Y) resolves to the single
\* instance of Y in A: B's instance for X is A's instance for Y, B creates no
\* instance of its own, importNow(X) returns the alias namespace itself, and
\* Y's functor runs once in total.
C8_AliasRoundTrip ==
  \A c \in Comps, s \in AllSpecs :
    Aliased(c, s) =>
      LET tc == moduleRecords[c][s].compartment
          ts == moduleRecords[c][s].moduleSpecifier
      IN /\ AliasNamespace(Heap, c, s) = deferredExports[tc][ts]
         /\ returned[c][s] \subseteq {AliasNamespace(Heap, c, s)}
         /\ instGen[c][s] = 0
         /\ instGen[tc][ts] <= 1
         /\ instances[c][s] # NoInst =>
              /\ instances[c][s] = instances[tc][ts]
              /\ inst[instances[c][s]].exportsProxy = AliasNamespace(Heap, c, s)
              /\ inst[instances[c][s]].runs <= 1
         /\ \A a \in Insts : \A i \in DOMAIN inst[a].importedInstances :
              (a[1] = c /\ resolveHook(i, a[2]) = s) =>
                 inst[a].importedInstances[i] = instances[tc][ts]

\* C8 witness: B.importNow(x) and A.importNow(y) both returned the namespace
\* that B's moduleMap holds, the instance of y ran once, and a module of B
\* that imports h holds the instance of A's leaf.
C8_Witness ==
  /\ returned["B"]["x"] = {<<"A", "y", 1>>}
  /\ returned["A"]["y"] = {<<"A", "y", 1>>}
  /\ inst[<<"A", "y", 1>>].runs = 1
  /\ <<"B", "right", 1>> \in Insts
  /\ inst[<<"B", "right", 1>>].importedInstances["h"] = <<"A", "leaf", 1>>

\* C9: the same source loaded under the same specifier in two compartments
\* not linked by an alias gives two instances: distinct namespaces, a functor
\* run in each, distinct exported objects.
C9_NoSharing ==
  \A s \in AllSpecs :
    (Own("A", s) /\ Own("B", s)) =>
      /\ returned["A"][s] \cap returned["B"][s] = {}
      /\ (instances["A"][s] # NoInst /\ instances["B"][s] # NoInst) =>
           /\ instances["A"][s] # instances["B"][s]
           /\ inst[instances["A"][s]].exportsProxy # inst[instances["B"][s]].exportsProxy
           /\ inst[instances["A"][s]].runs <= 1
           /\ inst[instances["B"][s]].runs <= 1
           /\ (~inst[instances["A"][s]].tdz /\ ~inst[instances["B"][s]].tdz) =>
                inst[instances["A"][s]].value # inst[instances["B"][s]].value

\* C9 witness: leaf was imported in A and in B, and ran once in each.
C9_Witness ==
  /\ returned["A"]["leaf"] # {} /\ returned["B"]["leaf"] # {}
  /\ inst[<<"A", "leaf", 1>>].runs = 1 /\ inst[<<"B", "leaf", 1>>].runs = 1

\* C10 (state part): the import hook is called at most once per full
\* specifier of a compartment.
C10_HookOnce == \A c \in Comps, s \in AllSpecs : hookCalls[c][s] <= 1

\* C10 (step part): a load of a specifier that is already known calls no
\* import hook, and a settled load promise stays settled the same way, so a
\* repeated load(S) settles as the first did.
C10_Step ==
  \A c \in Comps, s \in AllSpecs :
    /\ (loadCalls'[c][s] > loadCalls[c][s] /\ disc[c][s] # "none") => hookCalls' = hookCalls
    /\ settle[c][s].state \in {"resolved", "rejected"} => settle'[c][s] = settle[c][s]

\* C10: over any interleaving of load calls (repeated, concurrent, and sibling
\* discovery reaching a module through several paths) the import hook is
\* called at most once per full specifier, and a repeated load(S) settles the
\* same way as the first.
C10_LoadIdempotent == [](C10_HookOnce) /\ [][C10_Step]_vars

\* C10 witness: main was loaded twice and its promise resolved; leaf, which
\* left and right both import, was requested from the import hook once.
C10_Witness ==
  /\ loadCalls["B"]["main"] = 2
  /\ settle["B"]["main"].state = "resolved"
  /\ disc["B"]["left"] = "stored" /\ disc["B"]["right"] = "stored"
  /\ hookCalls["B"]["leaf"] = 1

(***************************************************************************)
(* Claims about the loader.                                                *)
(***************************************************************************)
\* The module graph as the sources and the module maps define it: an alias
\* leads to its target, a source to its resolved imports.
GraphSucc(x) ==
  IF moduleMap(x[1], x[2]) # NoProxy
    THEN {<<moduleMap(x[1], x[2])[1], moduleMap(x[1], x[2])[2]>>}
  ELSE IF HookTarget(x[1], x[2]).compartment # "none"
    THEN {<<HookTarget(x[1], x[2]).compartment, HookTarget(x[1], x[2]).specifier>>}
  ELSE {<<x[1], resolveHook(Imports(x[1], x[2])[k], x[2])>> : k \in 1..Len(Imports(x[1], x[2]))}

RECURSIVE GraphClosure(_)
GraphClosure(S) ==
  LET N == S \cup UNION {GraphSucc(x) : x \in S} IN
  IF N = S THEN S ELSE GraphClosure(N)

GraphReach(c, s) == GraphClosure({<<c, s>>})

\* C11: when the promise of load(root) has resolved, a completed module record
\* is present for every module transitively reachable from root (modules on
\* cycles and modules discovered through a sibling included), and none of
\* them is still pending.
C11_ResolvedMeansComplete ==
  \A c \in Comps, s \in AllSpecs :
    settle[c][s].state = "resolved" =>
      \A x \in GraphReach(c, s) :
        /\ moduleRecords[x[1]][x[2]] # NoRecord
        /\ disc[x[1]][x[2]] \in {"stored", "alias"}

\* C11 witness: load(main) and load(p) have resolved in B: main reaches leaf
\* through two siblings and two aliases into A, p lies on a cycle.
C11_Witness ==
  /\ settle["B"]["main"].state = "resolved"
  /\ settle["B"]["p"].state = "resolved"
  /\ moduleRecords["B"]["q"] # NoRecord
  /\ moduleRecords["B"]["x"] = moduleRecords["A"]["y"]
  /\ moduleRecords["A"]["leaf"] # NoRecord

\* The promise import(s) returned has resolved, or has rejected.
ImportResolved(c, s) ==
  importing[c][s].state = "linked" /\ call # <<c, s>> /\ returned[c][s] # {}
ImportRejected(c, s) ==
  \/ importing[c][s].state = "rejected"
  \/ importing[c][s].state = "linked" /\ call # <<c, s>> /\ thrown[c][s] # {}

\* C12: every import(root) eventually settles, for graphs with import cycles
\* inside a compartment and mutual dependencies between compartments through
\* module map aliases, provided every import hook call settles.
C12_ImportSettles ==
  \A c \in Comps : \A s \in ImportRoots(c) :
    (importing[c][s].state = "loading") ~> (ImportResolved(c, s) \/ ImportRejected(c, s))

\* C12 witness: import(even) in A, whose graph is a cycle through B, and
\* import(p) in B, whose graph is a cycle inside B, have both resolved.
C12_Witness ==
  /\ ImportResolved("A", "even")
  /\ ImportResolved("B", "p")
  /\ inst[<<"B", "odd", 1>>].runs = 1
  /\ inst[<<"B", "q", 1>>].runs = 1

\* C13 (state part): a load or an import that rejected in the loader rejected
\* with the error of a failed discovery of a module reachable from its root,
\* and of the root itself when the root is what failed; a load that resolved
\* and an import that went on to link reach no failed module; the import hook
\* was called at most once for a specifier, failed or not.
C13_RejectsWithTheError ==
  \A c \in Comps, s \in AllSpecs :
    /\ settle[c][s].state = "rejected" =>
         /\ \E x \in GraphReach(c, s) :
              disc[x[1]][x[2]] = "failed" /\ settle[c][s].error = LoadErr(x[1], x[2])
         /\ disc[c][s] = "failed" => settle[c][s].error = LoadErr(c, s)
    /\ importing[c][s].state = "rejected" =>
         \E x \in GraphReach(c, s) :
           disc[x[1]][x[2]] = "failed" /\ importing[c][s].error = LoadErr(x[1], x[2])
    /\ (settle[c][s].state = "resolved" \/ importing[c][s].state = "linked") =>
         \A x \in GraphReach(c, s) : disc[x[1]][x[2]] # "failed"
    /\ hookCalls[c][s] <= 1

\* C13 (step part): the step that rejects an import links and executes
\* nothing and cancels no discovery; a failed discovery stays failed and its
\* import hook is not called again; a stored record stays stored; a rejected
\* promise keeps its error.
C13_Step ==
  \A c \in Comps, s \in AllSpecs :
    /\ (importing[c][s].state # "rejected" /\ importing'[c][s].state = "rejected") =>
         UNCHANGED <<instances, instGen, inst, stack, call, returned, disc, moduleRecords>>
    /\ disc[c][s] = "failed" =>
         disc'[c][s] = "failed" /\ hookCalls'[c][s] = hookCalls[c][s]
    /\ disc[c][s] = "stored" =>
         disc'[c][s] = "stored" /\ moduleRecords'[c][s] = moduleRecords[c][s]
    /\ settle[c][s].state = "rejected" => settle'[c][s] = settle[c][s]
    /\ importing[c][s].state = "rejected" => importing'[c][s] = importing[c][s]

Missing(a) ==
  {x \in {<<Imports(a[1], a[2])[k], n>> : k \in 1..Len(Imports(a[1], a[2])), n \in Names} :
     /\ \E j \in 1..Len(ImportNames(a[1], a[2], x[1])) : ImportNames(a[1], a[2], x[1])[j] = x[2]
     /\ x[2] \notin Notifiers(Heap, inst[a].importedInstances[x[1]])}

BodyBegan(a) ==
  \/ \E k \in 1..Len(stack) : stack[k].inst = a /\ stack[k].pc = "body"
  \/ ~inst[a].tdz
  \/ inst[a].reads # {}
  \/ <<"run", Ok>> \in inst[a].outcomes

DependencyThrew(a) ==
  \E S \in DOMAIN inst[a].importedInstances : inst[inst[a].importedInstances[S]].didThrow

\* C14: when the update record of a parsed instance asks a dependency for a
\* name it has no notifier for, the module body never begins, execute() throws
\* SyntaxError(specifier, name) on the first call and on every later one, and
\* import of the module throws that error to the host and returns nothing.
C14_MissingExport ==
  \A a \in DOMAIN inst :
    (inst[a].kind = "parsed" /\ DOMAIN inst[a].importedInstances # {}) =>
      /\ BodyBegan(a) => Missing(a) = {}
      /\ (Missing(a) # {} /\ inst[a].runs >= 1 /\ ~OnStack(Heap, a) /\ ~DependencyThrew(a)) =>
           /\ inst[a].didThrow
           /\ inst[a].thrownError \in {SyntaxErr(x[1], x[2]) : x \in Missing(a)}
           /\ \A o \in inst[a].outcomes : o[2] = inst[a].thrownError
           /\ \A c \in Comps, s \in AllSpecs :
                (instances[c][s] = a /\ call # <<c, s>>) =>
                  returned[c][s] = {} /\ thrown[c][s] \subseteq {inst[a].thrownError}

\* C14 witness: import(m) was called twice and threw twice the SyntaxError that
\* names leaf and missing, the second time without running anything; leaf ran;
\* import(amb) threw the SyntaxError that names r and v.
C14_Witness ==
  /\ <<"A", "m", 1>> \in DOMAIN inst /\ <<"A", "amb", 1>> \in DOMAIN inst
  /\ inst[<<"A", "m", 1>>].outcomes =
       {<<"run", SyntaxErr("leaf", "missing")>>, <<"later", SyntaxErr("leaf", "missing")>>}
  /\ inst[<<"A", "m", 1>>].tdz /\ inst[<<"A", "m", 1>>].runs = 1
  /\ ~inst[<<"A", "leaf", 1>>].tdz
  /\ thrown["A"]["m"] = {SyntaxErr("leaf", "missing")}
  /\ thrown["A"]["amb"] = {SyntaxErr("r", "v")}
  /\ Idle

\* The step in which imports() of instance a completes.
ImportsCompletes(a) ==
  /\ inst[a].kind = "parsed"
  /\ exportAlls(a[1], a[2]) # {}
  /\ inst[a].exportsProxy \notin active
  /\ inst[a].exportsProxy \in active'

\* The `export *` sources of instance a whose instance has a notifier for name.
Providers(a, name) ==
  {S \in exportAlls(a[1], a[2]) : name \in Notifiers(Heap, inst[a].importedInstances[S])}

C16_Step ==
  \A a \in DOMAIN inst : ImportsCompletes(a) =>
    /\ ExportsProps(Heap', a) =
         ExportNames(a[1], a[2]) \cup
         {name \in Names \ {"*", "default"} :
            Cardinality(Providers(a, name)) = 1 /\ name \notin ExportNames(a[1], a[2])}
    /\ \A name \in ExportNames(a[1], a[2]) :
         /\ NotifierOrigin(Heap', a, name) = a
         /\ name \notin DOMAIN inst'[a].forwardNotifiers

\* C16 (frame part): proxiedExports is frozen: after imports() completed the
\* export names do not change.
C16_Frozen ==
  \A a \in DOMAIN inst :
    (inst[a].kind = "parsed" /\ inst[a].exportsProxy \in active) =>
      ExportsProps(Heap', a) = ExportsProps(Heap, a)

C18_EarlyReadThrows ==
  \A a \in DOMAIN inst : \A rd \in inst[a].reads :
    rd.tdz => rd.result = ReferenceErr(rd.instance)

\* The instances instance a imports, and the instances they reach.
DepsOf(a) == {inst[a].importedInstances[S] : S \in DOMAIN inst[a].importedInstances}

RECURSIVE InstClosure(_)
InstClosure(S) ==
  LET N == S \cup UNION {DepsOf(x) : x \in S} IN
  IF N = S THEN S ELSE InstClosure(N)

OnCycleWith(a, b) == a \in InstClosure({b})

Started(b) == inst[b].runs >= 1
Finished(b) == \E o \in inst[b].outcomes : o[1] = "run"

\* The functor of a completed only after the functor of each instance it
\* imports was started.
StartedBeforeCompletes(a) ==
  <<"run", Ok>> \in inst[a].outcomes => \A b \in DepsOf(a) : Started(b)

\* The module body of a, past its imports() call, runs only after the functor
\* of each instance a imports that is not on a cycle with a has returned or
\* thrown.
FinishedBeforeBody(a) ==
  ((\E k \in 1..Len(stack) : stack[k].inst = a /\ stack[k].pc = "body") \/ ~inst[a].tdz) =>
    \A b \in DepsOf(a) : ~OnCycleWith(a, b) => Finished(b)

\* C17 as stated: for every import edge A -> B, B's functor has been started
\* before A's functor completes, and when B is not on a cycle with A, B's
\* functor has completed or thrown before A's module body past imports() runs.
C17_ExecutionOrder ==
  \A a \in DOMAIN inst :
    /\ StartedBeforeCompletes(a)
    /\ inst[a].kind = "parsed" => FinishedBeforeBody(a)

\* C17, amended: the same for every import edge A -> B whose importer A is a
\* parsed module.
C17_ParsedExecutionOrder ==
  \A a \in DOMAIN inst :
    inst[a].kind = "parsed" => StartedBeforeCompletes(a) /\ FinishedBeforeBody(a)

\* C17 witness: main completed after left, right and y, none on a cycle with
\* it; in the cycle, q completed while p, which q imports, was started and
\* still running.
C17_Witness ==
  /\ {<<"B", "main", 1>>, <<"B", "p", 1>>, <<"B", "q", 1>>} \subseteq DOMAIN inst
  /\ <<"run", Ok>> \in inst[<<"B", "main", 1>>].outcomes
  /\ \A b \in DepsOf(<<"B", "main", 1>>) : <<"run", Ok>> \in inst[b].outcomes
  /\ <<"run", Ok>> \in inst[<<"B", "q", 1>>].outcomes
  /\ OnStack(Heap, <<"B", "p", 1>>) /\ ~Finished(<<"B", "p", 1>>)

\* C19: a call of module(specifier), the step in which module returns a proxy
\* to the host, calls no import hook and no moduleMapHook, stores no module
\* record, links no instance and executes nothing; of the deferred exports it
\* changes at most the entry of its own compartment and specifier, and the
\* proxy it returns is that entry.
C19_ModuleOnlyReturnsProxy ==
  [][\A c \in Comps, s \in AllSpecs :
       moduleRet'[c][s] # moduleRet[c][s] =>
         /\ UNCHANGED <<hookCalls, moduleRecords, disc, instances, instGen, inst,
                        stack, exc, call, active, returned, thrown>>
         /\ \A c2 \in Comps, s2 \in AllSpecs :
              <<c2, s2>> # <<c, s>> => deferredExports'[c2][s2] = deferredExports[c2][s2]
         /\ moduleRet'[c][s] = moduleRet[c][s] \cup {deferredExports'[c][s]}
         /\ deferredExports[c][s] # NoProxy => deferredExports'[c][s] = deferredExports[c][s]]_vars

\* C19 witness: module was called for x, which B has no source for and maps
\* to another compartment, and for p, which is on a cycle, before anything
\* was loaded: both returned a proxy, no hook was called, there is no record
\* and no instance.
C19_Witness ==
  /\ moduleRet["B"]["x"] = {deferredExports["B"]["x"]}
  /\ moduleRet["B"]["p"] = {deferredExports["B"]["p"]}
  /\ deferredExports["B"]["x"] # NoProxy /\ deferredExports["B"]["p"] # NoProxy
  /\ \A c \in Comps, s \in AllSpecs :
       hookCalls[c][s] = 0 /\ moduleRecords[c][s] = NoRecord /\ instances[c][s] = NoInst
  /\ deferredExports["A"]["leaf"] = NoProxy
  /\ inst = <<>>

\* The compartment and specifier a specifier is an alias of: the entry of
\* moduleMap if there is one, otherwise what moduleMapHook returns.
Delegate(c, s) ==
  IF moduleMap(c, s) # NoProxy
    THEN [compartment |-> moduleMap(c, s)[1], specifier |-> moduleMap(c, s)[2]]
    ELSE HookTarget(c, s)

IsAlias(c, s) == Delegate(c, s).compartment # "none"

\* C20 (state part): the import hook of a compartment is never called for a
\* specifier that its moduleMap maps or its moduleMapHook returns an alias
\* for; once discovered, the specifier is delegated to the target, moduleMap
\* taking precedence, and has the record of the target; the import hook is
\* called only for specifiers that neither gives an alias for.
C20_Delegated ==
  \A c \in Comps, s \in AllSpecs :
    /\ IsAlias(c, s) =>
         /\ hookCalls[c][s] = 0
         /\ disc[c][s] \in {"none", "alias"}
         /\ disc[c][s] = "alias" =>
              /\ disc[Delegate(c, s).compartment][Delegate(c, s).specifier] # "none"
              /\ moduleRecords[c][s] =
                   moduleRecords[Delegate(c, s).compartment][Delegate(c, s).specifier]
         /\ moduleRecords[c][s] # NoRecord =>
              /\ moduleRecords[c][s].compartment = Delegate(c, s).compartment
              /\ moduleRecords[c][s].moduleSpecifier = Delegate(c, s).specifier
    /\ hookCalls[c][s] > 0 => ~IsAlias(c, s)
    /\ disc[c][s] \in {"pending", "stored", "failed"} => ~IsAlias(c, s) /\ hookCalls[c][s] = 1

\* C20 (step part): when a specifier of moduleMap is discovered, moduleMapHook
\* is not called for it: what the hook would return for it is not created,
\* unless another specifier discovered in the same step asks for it.
C20_Step ==
  \A c \in Comps, s \in AllSpecs :
    (moduleMap(c, s) # NoProxy /\ HookTarget(c, s).compartment # "none"
       /\ disc[c][s] = "none" /\ disc'[c][s] = "alias"
       /\ \A s2 \in AllSpecs \ {s} :
            HookTarget(c, s2) = HookTarget(c, s) => disc'[c][s2] = disc[c][s2]) =>
      deferredExports'[HookTarget(c, s).compartment][HookTarget(c, s).specifier] =
        deferredExports[HookTarget(c, s).compartment][HookTarget(c, s).specifier]

\* C20: a specifier that moduleMap maps or moduleMapHook returns an alias for
\* is delegated to the target compartment and the importHook of this
\* compartment is never called for it; moduleMap is consulted before
\* moduleMapHook; importHook is called only when both give no alias.
C20_AliasBeforeImportHook == [](C20_Delegated) /\ [][C20_Step]_vars

\* C20 witness: B loaded main: x, which moduleMap maps to A's y and the hook
\* to A's leaf, has A's record of y; h, which the hook alone maps, has A's
\* record of leaf; the import hook of A was called for y and leaf, the one of
\* B for neither x nor h.
C20_Witness ==
  /\ settle["B"]["main"].state = "resolved"
  /\ moduleRecords["B"]["x"].compartment = "A" /\ moduleRecords["B"]["x"].moduleSpecifier = "y"
  /\ moduleRecords["B"]["h"].compartment = "A" /\ moduleRecords["B"]["h"].moduleSpecifier = "leaf"
  /\ hookCalls["A"]["y"] = 1 /\ hookCalls["A"]["leaf"] = 1
  /\ hookCalls["B"]["x"] = 0 /\ hookCalls["B"]["h"] = 0
  /\ hookCalls["B"]["main"] = 1

(***************************************************************************)
(* C21. A specifier that is not a string.                                  *)
(***************************************************************************)
\* A module method has refused its specifier in this step.
C21_Step == apiResult' # apiResult /\ apiResult'.check = "typeof specifier"

\* The step leaves the state of every compartment as it was.
C21_NoStateChange ==
  /\ UNCHANGED <<moduleRecords, hookCalls, deferredExports, proxyGen, moduleAliases,
                 active, instances, instGen, inst, stack, exc, call, returned, thrown,
                 moduleRet, disc>>
  /\ UNCHANGED <<privateFields, lvars>>

\* C21 as stated: module, load, import and importNow called with a specifier
\* that is not a string throw a TypeError to the caller, never reject a
\* promise with it, and change no compartment state.
C21_ThrowsSynchronously ==
  [][C21_Step =>
       /\ apiResult'.error = "TypeError"
       /\ apiResult'.how = "thrown"
       /\ C21_NoStateChange]_vars

\* C21 amended: module and importNow called with a specifier that is not a
\* string throw a TypeError to the caller; import and load, which are async
\* methods, return a promise rejected with the TypeError; none of the four
\* changes compartment state.
C21_TypeErrorWithoutEffect ==
  [][C21_Step =>
       /\ apiResult'.error = "TypeError"
       /\ apiResult'.how = (IF apiResult'.op \in {"module", "importNow"}
                              THEN "thrown" ELSE "rejected")
       /\ C21_NoStateChange]_vars

\* C21 witness: after module("leaf") made an exports proxy in A, import of a
\* number on A ended in a rejected promise and A still has its proxy.
C21_Witness ==
  /\ apiResult.check = "typeof specifier"
  /\ apiResult.op = "import" /\ apiResult.this = "A" /\ apiResult.arg = "number"
  /\ apiResult.how = "rejected"
  /\ deferredExports["A"]["leaf"] # NoProxy

(***************************************************************************)
(* C22. Compartments without hooks.                                        *)
(***************************************************************************)
\* The maps of the compartments that lack a hook are left alone, a module
\* method called on such a compartment fails with a TypeError, and evaluate
\* on it completes with the value of the program.
C22_Step ==
  /\ \A c \in Comps :
       ~assertModuleHooks(c) =>
         /\ deferredExports'[c] = deferredExports[c]
         /\ moduleRecords'[c] = moduleRecords[c]
         /\ instances'[c] = instances[c]
  /\ (apiResult' # apiResult /\ apiResult'.check = "assertModuleHooks") =>
       /\ ~assertModuleHooks(apiResult'.this)
       /\ apiResult'.error = "TypeError"
       /\ UNCHANGED <<deferredExports, moduleRecords, instances>>
  /\ (lastEval' # lastEval /\ ~assertModuleHooks(lastEval'.this)
        /\ lastEval'.program.kind = "read") =>
       lastEval'.result = Completed(privateFields[lastEval'.this].globalLexicals.props["x"])

Constructed(o) == constructorCall'[o] # constructorCall[o]

\* The positions of the moduleMap entries the validation rejects, given the
\* alias registry at the time of the call.
Rejected(entries) ==
  {i \in 1..Len(entries) :
     entries[i][1] = "string" \/ entries[i] \notin DOMAIN moduleAliases}

\* A constructor call whose moduleMap has an entry that is a string or is no
\* registered exports proxy throws, a TypeError if the first such entry is a
\* string and a ReferenceError otherwise, and registers no private fields.
C23_Step ==
  \A o \in Objs :
    Constructed(o) =>
      LET entries == constructorCall'[o].args.moduleMap
          first == CHOOSE i \in Rejected(entries) : \A j \in Rejected(entries) : i <= j
      IN IF Rejected(entries) = {}
           THEN constructorCall'[o].error \notin {"TypeError", "ReferenceError"}
           ELSE /\ constructorCall'[o].state = "thrown"
                /\ constructorCall'[o].error =
                     (IF entries[first][1] = "string" THEN "TypeError" ELSE "ReferenceError")
                /\ privateFields'[o] = NoFields

\* An object whose constructor threw has no private fields, and evaluate on
\* it throws.
C23_Unusable ==
  \A o \in Objs :
    constructorCall[o].state = "thrown" =>
      /\ privateFields[o] = NoFields
      /\ ~assertModuleHooks(o)
      /\ lastEval.this = o => lastEval.result = Threw("TypeError")

\* C23: construction fails when a moduleMap entry is a string (TypeError) or
\* is not an exports proxy registered in the alias registry (ReferenceError);
\* then no private state is registered for the object and it cannot be used
\* as a compartment.
C23_ModuleMapValidated == [](C23_Unusable) /\ [][C23_Step]_vars

\* C23 witness: the constructor of K1 was called with a moduleMap of a plain
\* object and a string and threw a ReferenceError; evaluate on K1 threw.
C23_Witness ==
  /\ constructorCall["K1"].state = "thrown"
  /\ constructorCall["K1"].error = "ReferenceError"
  /\ constructorCall["K1"].args.moduleMap = <<PlainObject, StringEntry>>
  /\ lastEval.this = "K1" /\ lastEval.result = Threw("TypeError")

\* A constructor call whose globalLexicals has an own property name that is
\* no valid identifier name throws and registers no private fields.
C24_Step ==
  \A o \in Objs :
    (Constructed(o)
       /\ \E n \in LexNames : /\ constructorCall'[o].args.globalLexicals[n] # Absent
                              /\ ~isValidIdentifierName(n)) =>
      /\ constructorCall'[o].state = "thrown"
      /\ privateFields'[o] = NoFields
      /\ Rejected(constructorCall'[o].args.moduleMap) = {} =>
           constructorCall'[o].error = "Error"

\* C24: construction fails when an own property name of globalLexicals is not
\* a valid identifier name, before the private state of the compartment is
\* registered.
C24_LexicalNamesValidated == [][C24_Step]_vars

\* C24 witness: the constructor of K1 was called with a valid moduleMap and
\* globalLexicals {x: 1, "a-b": 1} and threw an Error; K1 has no fields.
C24_Witness ==
  /\ constructorCall["K1"].state = "thrown"
  /\ constructorCall["K1"].error = "Error"
  /\ constructorCall["K1"].args.globalLexicals = Lexicals(1, 1)
  /\ constructorCall["K1"].args.moduleMap = <<<<"A", "y", 1>>>>
  /\ privateFields["K1"] = NoFields

\* The value of x in the globalLexicals the constructor of o was given.
AtConstruction(o) ==
  IF o \in Objs THEN constructorCall[o].args.globalLexicals["x"] ELSE 1

\* The snapshot is taken by the constructor, frozen, and no step changes it;
\* the caller's changes of its object are steps too.
C25_Step ==
  \A o \in Comps \cup Objs :
    /\ privateFields[o].registered =>
         privateFields'[o].globalLexicals = privateFields[o].globalLexicals
    /\ (o \in Objs /\ Constructed(o) /\ privateFields'[o].registered) =>
         privateFields'[o].globalLexicals =
           [frozen |-> TRUE, props |-> constructorCall'[o].args.globalLexicals]

\* What evaluate observes of x is what the constructor was given: a read
\* yields that value, an assignment throws.
C25_Observed ==
  (lastEval.this # "none" /\ privateFields[lastEval.this].registered
     /\ lastEval.program.kind \in {"read", "assign"}) =>
    lastEval.result =
      (IF AtConstruction(lastEval.this) = Absent THEN Threw("ReferenceError")
       ELSE IF lastEval.program.kind = "read" THEN Completed(AtConstruction(lastEval.this))
       ELSE Threw("TypeError"))

\* C25: the compartment uses a frozen shallow snapshot of globalLexicals taken
\* at construction: no later change the caller makes to the object it passed
\* is observed by a later evaluate or module execution, and evaluated code
\* cannot change the snapshot.
C25_LexicalsSnapshot == [](C25_Observed) /\ [][C25_Step]_vars

\* C25 witness: K1 was constructed with x = 1, the caller then changed x of
\* its object, and a program evaluated in K1 afterwards read 1.
C25_Witness ==
  /\ constructorCall["K1"].state = "returned"
  /\ constructorCall["K1"].args.globalLexicals["x"] = 1
  /\ callerLexicals["K1"]["x"] # 1
  /\ lastEval.this = "K1" /\ lastEval.program.kind = "read"
  /\ lastEval.result = Completed(1)

(***************************************************************************)
(* C26, C27. The exports namespace seen from outside.                      *)
(***************************************************************************)
\* The namespaces import and importNow have returned to the host.
ReturnedNamespaces == UNION {returned[c][s] : c \in Comps, s \in AllSpecs}

\* C26 as stated: a namespace returned by import is immutable from outside:
\* assigning a property throws a TypeError and leaves the exports unchanged,
\* no export property has a setter, preventExtensions returns true, the
\* prototype is null and an unknown key reads as undefined.
C26_ImmutableFromOutside ==
  \A proxy \in ReturnedNamespaces :
    /\ \A name \in Names :
         /\ proxyHandler(Heap, proxy).set.threw = "TypeError"
         /\ proxyHandler(Heap, proxy).set.heap = Heap
         /\ ~proxyGetOwnPropertyDescriptor(Heap, proxy, name).set
         /\ ~proxyGetOwnPropertyDescriptor(Heap, proxy, name).defined =>
              proxyGet(Heap, proxy, name) = UndefV
    /\ proxyHandler(Heap, proxy).preventExtensions
    /\ proxyHandler(Heap, proxy).getPrototypeOf = Null

\* C27 as stated: after activation the own keys of every exports namespace
\* are sorted, for parsed and third-party modules alike, and the exported
\* properties are accessors that cannot be written or configured.
C27_SortedKeys ==
  \A proxy \in active :
    /\ Proxied(Heap, proxy) # {} =>
         proxyOwnKeys(Heap, proxy) =
           Sort({proxyOwnKeys(Heap, proxy)[k] : k \in 1..Len(proxyOwnKeys(Heap, proxy))})
    /\ \A name \in Names :
         ~proxyGetOwnPropertyDescriptor(Heap, proxy, name).configurable

(***************************************************************************)
(* C28, C30. Third-party module instances.                                 *)
(***************************************************************************)
\* The value is an array whose elements are all strings.
ArrayOfStrings(e) ==
  e.type = "array" /\ \A k \in 1..Len(e.elements) : e.elements[k][2]

\* C28 as stated: constructing a third-party instance raises a TypeError
\* whenever the `exports` of the record is not an array of strings, be it a
\* value that is no array or an array with an element that is no string, and
\* then no binding is installed and no instance is returned.  A record
\* without `exports` is left out.
C28_ExportsValidated ==
  (thirdParty.outcome # "none" /\ thirdParty.exports.type # "undefined"
     /\ ~ArrayOfStrings(thirdParty.exports)) =>
    /\ thirdParty.outcome = "TypeError"
    /\ thirdParty.instance = NoInst
    /\ DOMAIN thirdParty.bindings = {}
    /\ instGen["B"]["tp"] = 0

\* Every updater subscribed to a binding has last received the value the
\* getter of the binding returns.
C30_Consistent ==
  \A name \in DOMAIN thirdParty.bindings :
    \A k \in 1..Len(thirdParty.bindings[name].updaters) :
      thirdParty.recv[name][thirdParty.bindings[name].updaters[k]] =
        thirdParty.bindings[name].value

\* A write stores its value, a subscription stays, and the getter returns
\* the value of a binding.
C30_Step ==
  /\ thirdParty'.wrote # thirdParty.wrote =>
       thirdParty'.bindings[thirdParty'.wrote[1]].value = thirdParty'.wrote[2]
  /\ \A name \in DOMAIN thirdParty.bindings :
       /\ name \in DOMAIN thirdParty'.bindings
       /\ Len(thirdParty'.bindings[name].updaters) >= Len(thirdParty.bindings[name].updaters)
       /\ SubSeq(thirdParty'.bindings[name].updaters, 1,
                 Len(thirdParty.bindings[name].updaters)) = thirdParty.bindings[name].updaters
  /\ thirdParty'.got # thirdParty.got =>
       \E name \in DOMAIN thirdParty.bindings :
         thirdParty'.got = thirdParty.bindings[name].value

\* C30: for each declared export name of a third-party module, a write
\* through the setter stores the value and delivers it to every updater
\* subscribed so far, and an updater is delivered the current value when it
\* subscribes: each subscriber's last received value equals the value the
\* getter returns.
C30_ThirdPartyBinding == [](C30_Consistent) /\ [][C30_Step]_vars

\* C30 witness: u1 subscribed to v, v was written, then u2 subscribed: both
\* have received the written value.
C30_Witness ==
  /\ "v" \in DOMAIN thirdParty.bindings
  /\ thirdParty.bindings["v"].updaters = <<"u1", "u2">>
  /\ thirdParty.wrote[1] = "v" /\ thirdParty.wrote[2] # Undefined
  /\ thirdParty.bindings["v"].value = thirdParty.wrote[2]
  /\ thirdParty.recv["v"]["u1"] = thirdParty.wrote[2]
  /\ thirdParty.recv["v"]["u2"] = thirdParty.wrote[2]

(***************************************************************************)
(* C29. Endowments.                                                        *)
(***************************************************************************)
\* The instance the host's import of B's main made, and the one of A's y,
\* which B's moduleMap maps x to.
MainOfB == instances["B"]["main"]
YOfA == instances["A"]["y"]

\* C29: the endowments of a compartment are globals of that compartment
\* only: the functor of a module is evaluated with the global object of the
\* compartment of its record, a module of B never sees an endowment of A as a
\* free variable, also when B imports a module of A through its moduleMap,
\* and the module of A that B imports sees the endowments of A.
C29_EndowmentsIsolated ==
  \A i \in DOMAIN inst :
    inst[i].kind = "parsed" =>
      /\ inst[i].globalObject = i[1]
      /\ FreeVariables(Heap, i) = Endowments(i[1])
      /\ inst[i].free \subseteq Endowments(i[1])
      /\ i[1] = "B" => "double" \notin inst[i].free
      /\ \A c \in Comps, s \in AllSpecs :
           (instances[c][s] = i /\ c # i[1]) => moduleRecords[c][s].compartment = i[1]

\* C29 witness: import of B's main returned; main, a module of B, saw no
\* endowment as a free variable; x of B is the instance of A's y, which saw
\* double, and main received the value y exports.
C29_Witness ==
  /\ returned["B"]["main"] # {}
  /\ MainOfB # NoInst /\ YOfA # NoInst
  /\ instances["B"]["x"] = YOfA
  /\ inst[MainOfB].free = {} /\ ~inst[MainOfB].tdz
  /\ inst[YOfA].free = {"double"}
  /\ "x" \in DOMAIN inst[MainOfB].seen
  /\ inst[MainOfB].seen["x"] = inst[YOfA].value
  /\ inst[YOfA].value # UndefV


(***************************************************************************)
(* Claims about cycles, linking, fan-out and the propagation of errors.    *)
(***************************************************************************)
\* The dependency the imports() call on top of the stack is about to execute.
NextDependency ==
  inst[Top(Heap).inst].importedInstances[
    Imports(Top(Heap).inst[1], Top(Heap).inst[2])[Top(Heap).k]]

\* imports() is about to call execute() on a parsed instance whose functor is
\* running.
Reenters ==
  /\ Running
  /\ Top(Heap).pc = "imports"
  /\ Top(Heap).k <= Len(Imports(Top(Heap).inst[1], Top(Heap).inst[2]))
  /\ NextDependency \in Parsed
  /\ OnStack(Heap, NextDependency)

\* The re-entrant call returns at once: the functor is not run again, no
\* frame is pushed, and nothing is thrown by the call (the importer goes on
\* to subscribe, which can only fail with its own SyntaxError).
C31_Step ==
  Reenters =>
    LET i == NextDependency IN
      /\ inst'[i].runs = inst[i].runs
      /\ <<"reentrant", Ok>> \in inst'[i].outcomes
      /\ Len(stack') = Len(stack)
      /\ exc' = NoErr \/ exc'[1] = "SyntaxError"

\* No re-entrant call on a parsed instance ever threw, whatever the outer run
\* did afterwards.
C31_NeverThrew == \A i \in Parsed : Results(i, "reentrant") \subseteq {Ok}

\* C31: execute() called on an instance whose functor is running returns
\* immediately and normally: it neither runs the functor again nor throws,
\* even if the outer run of the functor throws later.
C31_ReentrantExecute == [](C31_NeverThrew) /\ [][C31_Step]_vars

\* C31 witness: a parsed instance was re-entered through a cycle, the
\* re-entrant call returned normally, and the outer run threw afterwards.
C31_Witness ==
  \E i \in Parsed :
    /\ Ok \in Results(i, "reentrant")
    /\ \E e \in Results(i, "run") : IsErr(e)
    /\ inst[i].runs = 1


\* The instance importer i is wired to for the k-th specifier of its source,
\* and the instance its compartment holds for that full specifier.
WiredTo(i, k) == inst[i].importedInstances[Imports(i[1], i[2])[k]]
InstanceOf(i, k) ==
  instances[i[1]][moduleRecords[i[1]][i[2]].resolvedImports[Imports(i[1], i[2])[k]]]

\* C32: link on a loaded graph, cycles included, ends with one module
\* instance per reachable full specifier: every import of every instance is
\* wired to the instance its compartment holds for the resolved specifier,
\* also where linking came back to a specifier under construction, and no
\* second instance of a specifier is ever made.
C32_OneInstancePerSpecifier ==
  /\ \A c \in Comps, s \in AllSpecs : instGen[c][s] <= 1
  /\ \A i \in Insts :
       /\ instances[i[1]][i[2]] = i
       /\ \A k \in 1..Len(Imports(i[1], i[2])) :
            /\ Imports(i[1], i[2])[k] \in DOMAIN inst[i].importedInstances
            /\ WiredTo(i, k) \in Insts
            /\ WiredTo(i, k) = InstanceOf(i, k)

\* C32 witness: importNow("p") linked the cycle p -> tp -> q -> p: q, reached
\* while p was under construction, is wired to the one instance of p, and p,
\* q and tp have one instance each.
C32_Witness ==
  /\ \A s \in {"p", "q", "tp"} : instances["B"][s] \in Insts /\ instGen["B"][s] = 1
  /\ inst[instances["B"]["q"]].importedInstances["p"] = instances["B"]["p"]
  /\ inst[instances["B"]["tp"]].importedInstances["q"] = instances["B"]["q"]
  /\ inst[instances["B"]["p"]].importedInstances["q"] = instances["B"]["q"]
  /\ inst[instances["B"]["p"]].runs = 1


\* importNow has linked its root and not yet called execute() on it.
Linked == call # NoCall /\ stack = <<>> /\ exc = NoErr

\* An instance as its constructor leaves it: the functor (or the supplied
\* execute) not invoked, the binding of a parsed module in its TDZ, nothing
\* delivered or read, no outcome of an execute() call.
Untouched(r) ==
  /\ r.runs = 0
  /\ r.optFunctor = (r.kind = "parsed")
  /\ ~r.activated /\ ~r.didThrow
  /\ r.tdz = (r.kind = "parsed")
  /\ r.value = UndefV
  /\ r.seen = <<>> /\ r.forwarded = <<>> /\ r.reads = {}
  /\ r.outcomes = {}

\* The step of link: the instances it makes are untouched, those that were
\* there are as they were, and no exports namespace is activated.
C33_Step ==
  (~Linked /\ Linked') =>
    /\ \A i \in DOMAIN inst' :
         IF i \in DOMAIN inst THEN inst'[i] = inst[i] ELSE Untouched(inst'[i])
    /\ active' = active
    /\ returned' = returned /\ thrown' = thrown

\* After link, the root and all its transitive dependencies have an instance.
C33_AllInstantiated ==
  Linked => /\ instances[call[1]][call[2]] \in Insts
            /\ InstClosure({instances[call[1]][call[2]]}) \subseteq Insts

\* C33: linking runs no module body.  Between link(S) and the first
\* execute() no functor and no third-party execute has been invoked, no
\* binding has left its TDZ and no exports namespace has been activated,
\* while S and all its transitive dependencies have their instances.
C33_LinkDoesNotExecute == [](C33_AllInstantiated) /\ [][C33_Step]_vars

\* C33 witness: importNow("main") of B has linked the diamond (main, left,
\* right, leaf) and the aliases x of A's y and h of A's leaf; the six
\* instances exist and none has run or been activated.
C33_Witness ==
  /\ Linked
  /\ call = <<"B", "main">>
  /\ Cardinality(InstClosure({instances["B"]["main"]})) = 6
  /\ \A i \in InstClosure({instances["B"]["main"]}) :
       Untouched(inst[i]) /\ inst[i].exportsProxy \notin active


\* The updaters subscribed to a binding and not yet served for good, in the
\* order of their subscription.
Subscribed(b) ==
  IF b = "live" THEN liveB.updaters
  ELSE IF fixedB.optUpdaters = Null THEN <<>> ELSE fixedB.optUpdaters

\* The invocations of one fan-out of value v: one per subscription, in the
\* order of the subscriptions.
InOrderOnce(fan, subscribed, v) ==
  /\ Len(fan) = Len(subscribed)
  /\ \A k \in 1..Len(subscribed) : fan[k] = <<subscribed[k], v>>

\* notify puts the updater behind those subscribed before it; an operation
\* that fans a value out invokes the subscriptions in that order, once each.
C34_Step ==
  ops' = ops + 1 =>
    LET b == lastOp'.b
        op == lastOp'.op
    IN /\ (op = "notify" /\ lastOp'.u # Self /\ (b = "live" \/ fixedB.tdz)) =>
            (IF b = "live" THEN liveB'.updaters ELSE fixedB'.optUpdaters)
              = Append(Subscribed(b), lastOp'.u)
       /\ (op \in {"init", "update", "set"} /\ lastOp'.res = "ok") =>
            /\ InOrderOnce(lastFan', Subscribed(b), lastOp'.arg)
            /\ b = "live" => liveB'.updaters = liveB.updaters
       /\ (op \in {"init", "update", "set"} /\ lastOp'.res # "ok") => lastFan' = <<>>

C35_Step ==
  /\ (lastOp'.b = "fixed" /\ lastOp'.op = "init" /\ ops' = ops + 1) =>
       IF fixedB.tdz
         THEN /\ lastOp'.res = "ok"
              /\ fixedB'.value = lastOp'.arg /\ ~fixedB'.tdz
              /\ InOrderOnce(lastFan', fixedB.optUpdaters, lastOp'.arg)
              /\ \A k \in 1..Len(fixedB.optUpdaters) :
                   recv'["fixed"][fixedB.optUpdaters[k]] = lastOp'.arg
         ELSE /\ lastOp'.res = "Error"
              /\ lastFan' = <<>>
              /\ fixedB' = fixedB /\ recv' = recv
  /\ ~fixedB.tdz => (~fixedB'.tdz /\ fixedB'.value = fixedB.value)

\* After initialization get and every subscriber see the one value.
C35_OneValue ==
  ~fixedB.tdz =>
    /\ \A u \in Updaters : recv["fixed"][u] \in {Never, fixedB.value}
    /\ \A u \in notified["fixed"] : recv["fixed"][u] = fixedB.value
    /\ (lastOp.b = "fixed" /\ lastOp.op = "get") =>
         (lastOp.res = "ok" /\ lastOp.arg = fixedB.value)

\* C35: a fixed binding is set at most once.  The first init(v) stores v and
\* delivers it once to each updater queued during TDZ; a later init raises
\* an error and leaves the value unchanged, so the value that get and the
\* subscribers see never changes after initialization.
C35_FixedSetOnce == [](C35_OneValue) /\ [][C35_Step]_bvars

\* C35 witness: the binding was initialized with 1, u1 and u2 were
\* subscribed, and a second init, with 2, has just been refused: the value
\* and what both subscribers received is still 1.
C35_Witness ==
  /\ lastOp = Op("fixed", "init", 2, "none", "Error")
  /\ fixedB.value = 1 /\ ~fixedB.tdz
  /\ recv["fixed"]["u1"] = 1 /\ recv["fixed"]["u2"] = 1


\* An error thrown by execute() of a dependency is in flight and the
\* imports() of parsed instance a, on top of the stack, is where it arrives.
ArrivesAt(a) ==
  /\ exc # NoErr /\ IsErr(exc) /\ exc[2] # a
  /\ stack # <<>> /\ Top(Heap).inst = a /\ Top(Heap).pc = "imports"
  /\ a \in Parsed

\* a's execute() ends with the error it received: the same error is thrown
\* on, it is a's sticky failure, and nothing of a's functor ran after it.
C36_Step ==
  \A a \in Insts :
    ArrivesAt(a) =>
      /\ exc' = exc
      /\ inst'[a].didThrow /\ inst'[a].thrownError = exc
      /\ <<"run", exc>> \in inst'[a].outcomes
      /\ inst'[a].tdz /\ inst'[a].value = UndefV
      /\ inst'[a].seen = inst[a].seen /\ inst'[a].forwarded = inst[a].forwarded
      /\ active' = active
      /\ stack' = SubSeq(stack, 1, Len(stack) - 1)

\* A parsed instance that failed with the error of another instance never
\* ran its body, every later execute() of it throws that error, and the
\* error is the one the other instance threw.
C36_Sticky ==
  \A a \in Parsed :
    (inst[a].didThrow /\ IsErr(inst[a].thrownError) /\ inst[a].thrownError[2] # a) =>
      /\ inst[a].tdz /\ inst[a].exportsProxy \notin active
      /\ Results(a, "run") = {inst[a].thrownError}
      /\ Results(a, "later") \subseteq {inst[a].thrownError}
      /\ inst[a].thrownError \in Results(inst[a].thrownError[2], "run")

\* C36: errors of dependencies are not swallowed.  If execute() of a
\* dependency throws e while the imports() of module A runs, because the
\* dependency's body fails now or failed earlier, A.execute() throws the same
\* e, the rest of A's functor does not run, and e is A's sticky failure.
C36_DependencyErrorPropagates == [](C36_Sticky) /\ [][C36_Step]_vars

\* C36 witness: one parsed importer failed with the error its dependency's
\* body threw during this same import, and another (main of B, through its
\* alias x) with the error A's y had thrown in an earlier call and threw
\* again from its sticky failure.
C36_Witness ==
  /\ \E a \in Parsed :
       /\ inst[a].didThrow /\ inst[a].thrownError[2] # a
       /\ Results(inst[a].thrownError[2], "later") = {}
  /\ \E a \in Parsed :
       /\ a[2] = "main"
       /\ inst[a].didThrow /\ inst[a].thrownError[2] = <<"A", "y", 1>>
       /\ inst[a].thrownError \in Results(<<"A", "y", 1>>, "later")


\* A SyntaxError comes up in this step.
SyntaxErrorThrown == exc = NoErr /\ exc' # NoErr /\ exc'[1] = "SyntaxError"

\* imports() of instance a finds no notifier for a name it asks of its k-th
\* dependency: the SyntaxError is raised in this step, which is the normal
\* return of execute() of that dependency to the imports() that called it.
RaisesSyntaxError(a, k) ==
  /\ SyntaxErrorThrown
  /\ stack' # <<>>
  /\ stack'[Len(stack')] = Frame(a, "imports", k)
  /\ ~inst'[inst'[a].importedInstances[Imports(a[1], a[2])[k]]].didThrow

\* execute() has been called on the k-th dependency of a and on every
\* dependency before it in the update record: each has run its functor, and
\* has finished unless it is still running further down the stack.
RanBefore(a, k) ==
  /\ exc'[2][1] = Imports(a[1], a[2])[k]
  /\ \A j \in 1..k :
       LET d == inst'[a].importedInstances[Imports(a[1], a[2])[j]] IN
         /\ inst'[d].runs = 1
         /\ \/ \E o \in inst'[d].outcomes : o[1] = "run"
            \/ \E n \in 1..Len(stack') : stack'[n].inst = d

\* A SyntaxError that comes up is raised by an imports() whose dependencies
\* up to the one in question have run, or is the sticky failure of an
\* instance that is thrown again.
C37_Step ==
  SyntaxErrorThrown =>
    \/ \E i \in Insts : inst[i].didThrow /\ inst[i].thrownError = exc'
    \/ \E a \in Insts : \E k \in 1..Len(Imports(a[1], a[2])) :
         RaisesSyntaxError(a, k) /\ RanBefore(a, k)

\* What an execution has done stays done in every step, also in those that
\* raise and pass on the SyntaxError.
C37_NotUndone ==
  \A i \in Insts :
    /\ inst'[i].runs >= inst[i].runs
    /\ inst[i].outcomes \subseteq inst'[i].outcomes
    /\ ~inst[i].tdz => (~inst'[i].tdz /\ inst'[i].value = inst[i].value)
    /\ inst[i].exportsProxy \in active => inst'[i].exportsProxy \in active'

\* C37: export names are checked only after the dependency has run.  When
\* module A asks dependency B for a name B does not provide, B.execute() and
\* the execution of every dependency before B in A's update record have
\* happened by the time A fails with the SyntaxError, and are not undone.
C37_NamesCheckedAfterExecute == [][C37_Step /\ C37_NotUndone]_vars

\* C37 witness: import(m2) threw the SyntaxError that names leaf and missing;
\* d1, listed before leaf, and leaf itself ran to the end, are initialized
\* and activated, and m2 never began its body.
C37_Witness ==
  /\ Idle
  /\ thrown["A"]["m2"] = {SyntaxErr("leaf", "missing")}
  /\ \A s \in {"d1", "leaf"} :
       /\ <<"run", Ok>> \in inst[<<"A", s, 1>>].outcomes
       /\ ~inst[<<"A", s, 1>>].tdz
       /\ inst[<<"A", s, 1>>].exportsProxy \in active
  /\ inst[<<"A", "m2", 1>>].tdz /\ inst[<<"A", "m2", 1>>].didThrow


(***************************************************************************)
(* Claims about the evaluator guard.                                       *)
(***************************************************************************)
\* The evaluation begins in this step; the call ends in this step.
EvaluationBegins == evaluation.state = "none" /\ evaluation'.state = "evaluating"
EvaluationEnds == evaluation.state = "evaluating" /\ evaluation'.state = "none"

\* The flag is on when the evaluation begins.  A call that ends while the
\* flag is on revokes the scope proxy and fails with the assertion error,
\* whatever the source did; one that ends with the flag off completes as the
\* source did.
C38_Step ==
  /\ EvaluationBegins => scopeHandler'.useUnsafeEvaluator
  /\ EvaluationEnds =>
       /\ Len(evaluations') = Len(evaluations) + 1
       /\ LET end == evaluations'[Len(evaluations')] IN
            IF scopeHandler.useUnsafeEvaluator
              THEN end[2] = "assertion error" /\ scopeProxy'.revoked
              ELSE end[2] = end[1] /\ end[1] = evaluation.source
                   /\ scopeProxy' = scopeProxy

\* While the evaluator is not running, a flag that is on means that the
\* proxy is revoked: the call that left it on has failed.
C38_Guarded ==
  (evaluation.state = "none" /\ scopeHandler.useUnsafeEvaluator) =>
    /\ scopeProxy.revoked
    /\ \E k \in 1..Len(evaluations) : evaluations[k][2] = "assertion error"

\* C38: every evaluation through makeEvaluate sets useUnsafeEvaluator to
\* true right before it evaluates, and none completes as its source did
\* with the flag still true: then the scope proxy is revoked and the call
\* fails with an assertion error, whether the source returned or threw.
C38_EvaluatorGuard == [](C38_Guarded) /\ [][C38_Step]_vars

\* C38 witness: one call whose source returned and one whose source threw
\* both ended with the assertion error, the flag not having been switched
\* off, and a call in which it was switched off returned.
C38_Witness ==
  /\ evaluation.state = "none"
  /\ \E k \in 1..Len(evaluations) : evaluations[k] = <<"returned", "assertion error">>
  /\ \E k \in 1..Len(evaluations) : evaluations[k] = <<"threw", "assertion error">>
  /\ \E k \in 1..Len(evaluations) : evaluations[k] = <<"returned", "returned">>
  /\ scopeProxy.revoked


(***************************************************************************)
(* Claims about AltWeakMap.                                                *)
(***************************************************************************)
\* What the hidden field of an object stands for: its value is the entry,
\* and a field that holds PUMPKIN is no entry, like a field that is absent.
Abstraction(f) == IF f = PUMPKIN THEN Absent ELSE f

\* C39: AltWeakMap refines WeakMap.  Over any sequence of set, get, has and
\* delete calls on any number of instances every result is the one of a
\* WeakMap kept beside the instance, the entries of one instance are not
\* seen by another, and set with a key that is no object raises a TypeError.
C39_RefinesWeakMap ==
  /\ lastCall.result = lastCall.expected
  /\ \A m \in AltWeakMaps, key \in KeyObjects :
       Abstraction(hiddenValue[m][key]) = weakMap[m][key]
  /\ (lastCall.method = "set" /\ lastCall.key \notin KeyObjects) =>
       lastCall.result = TypeError

\* C39 witness: m1 holds undefined as the value of o1 and has no field on
\* o2, while m2 holds a deleted entry for o1: has(o1) of m1 has just
\* answered true.
C39_Witness ==
  /\ lastCall = Call("has", "m1", "o1", Boolean(TRUE), Boolean(TRUE))
  /\ hiddenValue["m1"]["o1"] = Undefined
  /\ hiddenValue["m2"]["o1"] = PUMPKIN
  /\ hiddenValue["m1"]["o2"] = Absent


(***************************************************************************)
(* Claims about graphPackages.                                             *)
(***************************************************************************)
\* The entry of a location has its label, dependencies, exports and parsers.
Filled(packageLocation) ==
  /\ graph[packageLocation].result
  /\ graph[packageLocation].label
  /\ graph[packageLocation].exports
  /\ graph[packageLocation].parsers
Listed(packageLocation) ==
  {graph[packageLocation].dependencies[i] :
     i \in 1..Len(graph[packageLocation].dependencies)}
Settled == graphPromise \in {"resolved", "rejected"}
NotFound == \E x \in DOMAIN gather : x[2] \notin Packages /\ gather[x] = "rejected"

\* No location is gathered twice.
C40_Once == \A p \in Packages : graph[p].gathered <= 1
\* Once the promise is resolved, every entry lists each of the dependencies
\* its descriptor names, once, every listed location has a filled entry, and
\* no call of gatherDependency is still under way or has failed.
C40_Resolved ==
  graphPromise = "resolved" =>
    /\ \A p \in Packages :
         graph[p].result =>
           /\ Listed(p) = descriptors[p].dependencies
           /\ Len(graph[p].dependencies) = Cardinality(Listed(p))
           /\ \A q \in Listed(p) : Filled(q)
    /\ Filled("app")
    /\ \A x \in DOMAIN gather : gather[x] \in {"none", "resolved"}

\* C40: graphPackages terminates on every finite dependency graph, cyclic and
\* diamond-shaped ones included: its promise settles.  It gathers no package
\* location twice.  When the promise is resolved, every location listed in
\* the dependencies of an entry is a key of the graph whose entry has label,
\* dependencies, exports and parsers.  A dependency that cannot be found
\* rejects the promise.
C40_GraphPackages ==
  /\ [](C40_Once /\ C40_Resolved)
  /\ (graphPromise = "pending") ~> Settled
  /\ NotFound ~> (graphPromise = "rejected")

\* The call for the diamond over a cycle has resolved with all four packages
\* in the graph, two of them listed by more than one dependent.
C40_Witness ==
  /\ graphPromise = "resolved"
  /\ \A p \in Packages : Filled(p) /\ graph[p].gathered = 1
  /\ "a" \in Listed("b") /\ "b" \in Listed("a") /\ "c" \in Listed("c")
  /\ "c" \in Listed("a") /\ "c" \in Listed("b")

====
